---- MODULE Spec2Model ----
(***************************************************************************)
(* Price-metrics derivation (PriceMetrics.calculateHistoricalMetrics) and  *)
(* the staging/merge load (PriceMetrics.saveMetrics with                   *)
(* PriceMetricsDataManager) of EOD-GPT.                                    *)
(*                                                                         *)
(* Time is counted in hours since an epoch that is midnight UTC; a Date is *)
(* an integer instant.  Numbers that the code holds as doubles are exact   *)
(* here: integers for the inputs and products, normalised fractions        *)
(* [num, den] for the scaled sums and the ratios.  An optional value is    *)
(* Null (the code's null) or Some(v).  A statement document is a function  *)
(* from the names of the fields it has to their values, so a field that a  *)
(* document lacks (the code's undefined) is a name outside its DOMAIN.     *)
(***************************************************************************)
EXTENDS Integers, Sequences, FiniteSets, TLC

VARIABLES
  \* ---- one derivation: calculateHistoricalMetrics(ticker, isInternational, ...)
  isInternational,  \* the derivation's classification argument
  eodRows,          \* what the price provider answers for the requested range
  docs,             \* the documents of the queried collection for this ticker
  pc,               \* where the derivation stands
  priceDataPoints,  \* getHistoricalPriceData's result
  records,          \* intlStockData / allQuarters: the query's sorted result
  i,                \* index of the next price point of the for loop
  metrics,          \* the rows pushed so far; the result once pc = "done"
  it,               \* the locals of the loop iteration that ran last
  \* ---- the clock, read by new Date() and Date.now(): now counts the
  \* instants the program has read, and nowRead tells that the current one
  \* has been read, so that the next awaited call ends at a later instant
  now,
  nowRead,
  \* ---- the stores
  mongo,            \* the StockPriceMetrics collection: a set of rows
  durable,          \* pricemetrics.stock_metrics: created, visible, rows
  staging,          \* the stock_metrics_temp_<timestamp> tables, by timestamp
  \* ---- one load: saveMetrics(metrics)
  lpc,              \* where the load stands
  batch,            \* the metrics argument
  mgr,              \* the PriceMetricsDataManager and the locals of its calls
  outcome,          \* how the last saveMetrics call ended
  loads,            \* the number of saveMetrics calls so far
  \* ---- history of the loads, for the statements about repeated loads
  prevBatch,        \* the batch of the call before this one
  prevOutcome,      \* and how that call ended
  snap,             \* the durable rows when this call started
  base,             \* the durable rows when this batch was first attempted
  \* ---- one run: hydrateAllData() or refreshPriceData()
  mode,             \* which of the two
  allTickers,       \* allTickers / tickersToUpdate: the de-duplicated universe
  intlTickerSet,    \* the tickers classified international
  rpc,              \* where the run stands
  bi,               \* the batch loop's i
  tasks,            \* the derivations of the current batch, by ticker
  allMetrics,       \* the rows collected from the current batch
  \* ---- a second saveMetrics call in progress at the same time: its lpc,
  \* batch, mgr and outcome while the other call is the one that runs
  peer,
  \* ---- how many times the run has invoked the derivation of a ticker,
  \* requested its prices and queried its documents
  calls,
  \* ---- the tickers that have documents in the InternationalStock
  \* collection, recently updated or not
  intlListed,
  \* ---- one call of FinancialsDataManager.filterNumericFields(data)
  data,             \* the argument: a statement row, field name to value
  filtered          \* the returned object, once the call has returned

deriveVars == <<isInternational, eodRows, docs, pc, priceDataPoints, records,
                i, metrics, it>>

clockVars == <<now, nowRead>>

storeVars == <<mongo, durable, staging>>

loadVars == <<lpc, batch, mgr, outcome, loads>>

historyVars == <<prevBatch, prevOutcome, snap, base>>

runVars == <<mode, allTickers, intlTickerSet, rpc, bi, tasks, allMetrics>>

vars == <<deriveVars, clockVars, storeVars, loadVars, historyVars, runVars,
          peer, calls, intlListed, data, filtered>>

---------------------------------------------------------------------------
(* Bounds of the model *)

\* the provider has one daily row for each of the days 1..MaxDay
MaxDay == 4
\* the most statement (or shares-outstanding) documents a security has
MaxQuarters == 5

\* the most saveMetrics calls of a run, retries included
MaxLoads == 3
\* the tickers of one batch of a run: stands for the code's batchSize of 10
TickerBatchSize == 2
\* the rows of one staging insert: stands for the code's batchSize of 500
InsertBatchSize == 2
\* hours the local zone of the process is ahead of UTC (moment's Z)
LocalUtcOffset == 0

(* Constants of the program *)

\* America/New_York is UTC-5 (standard time)
NyUtcOffset == 5
\* estDate.hours(16)
MarketCloseHour == 16
\* while (!exists && iterations < 3)
MaxIterations == 3
\* availableQuarters.slice(-4)
TtmWindow == 4
\* 4 / quartersAvailable
QuartersPerYear == 4

---------------------------------------------------------------------------
(* Values *)

Null == <<>>
Some(v) == <<v>>
IsNull(o) == o = Null
Get(o) == o[1]

Abs(n) == IF n < 0 THEN -n ELSE n

RECURSIVE Gcd(_, _)
Gcd(a, b) == IF b = 0 THEN a ELSE Gcd(b, a % b)

\* the fraction n/d, d # 0, in lowest terms with a positive denominator
Frac(n, d) ==
  LET g == Gcd(Abs(n), Abs(d))
      s == IF d < 0 THEN -1 ELSE 1
  IN [num |-> (s * n) \div g, den |-> (s * d) \div g]

FracOfInt(n) == [num |-> n, den |-> 1]
FracMul(a, b) == Frac(a.num * b.num, a.den * b.den)
\* a / b for b # 0
FracDiv(a, b) == Frac(a.num * b.den, a.den * b.num)
FracPositive(a) == a.num > 0
FracZero == [num |-> 0, den |-> 1]

\* q.f is neither undefined nor 0: the truthiness test of a numeric field
Truthy(q, f) == f \in DOMAIN q /\ q[f] # 0
\* q.f || 0
OrZero(q, f) == IF Truthy(q, f) THEN q[f] ELSE 0
\* q.f !== undefined
Defined(q, f) == f \in DOMAIN q

---------------------------------------------------------------------------
(* getHistoricalPriceData *)

\* momentTz(date).tz("America/New_York").hours(16).minutes(0)...utc()
standardizeToMarketClose(date) ==
  LET local == date - NyUtcOffset
      day == local \div 24
  IN day * 24 + MarketCloseHour + NyUtcOffset

\* historicalData.map(...)
MapPriceData(historicalData) ==
  [k \in 1..Len(historicalData) |->
     [price |-> historicalData[k].close,
      volume |-> historicalData[k].volume,
      date |-> standardizeToMarketClose(historicalData[k].date)]]

---------------------------------------------------------------------------
(* the collection queries: find({ ticker }).sort({ date: 1 }).lean() *)

RECURSIVE SortByDate(_)
SortByDate(S) ==
  IF S = {} THEN <<>>
  ELSE LET first == CHOOSE x \in S : \A y \in S : x.date <= y.date
       IN <<first>> \o SortByDate(S \ {first})

---------------------------------------------------------------------------
(* the foreign branch of the loop body *)

\* the scan comparing with < where the code has <=
RECURSIVE ScanClosestStrict(_, _, _, _)
ScanClosestStrict(intlStockData, date, j, closest) ==
  IF j > Len(intlStockData) THEN closest
  ELSE IF intlStockData[j].date < date
       THEN ScanClosestStrict(intlStockData, date, j + 1, Some(intlStockData[j]))
       ELSE closest

\* the scan over intlStockData with its break; j is the next index and
\* closest the value of closestSharesData so far
RECURSIVE ScanClosest(_, _, _, _)
ScanClosest(intlStockData, date, j, closest) ==
  IF j > Len(intlStockData) THEN closest
  ELSE IF intlStockData[j].date <= date
       THEN ScanClosest(intlStockData, date, j + 1, Some(intlStockData[j]))
       ELSE closest

ClosestSharesData(intlStockData, date) ==
  ScanClosest(intlStockData, date, 1, Null)

\* a foreign row that carries its market capitalization as enterprise value
ForeignRowValued(ticker, priceData, closestSharesData, lastUpdated) ==
  [ticker |-> ticker,
   symbol |-> ticker,
   date |-> priceData.date,
   price |-> priceData.price,
   volume |-> priceData.volume,
   marketCap |-> priceData.price
                   * Get(closestSharesData).commonStockSharesOutstanding,
   peRatioTTM |-> Null,
   psRatioTTM |-> Null,
   pbRatioTTM |-> Null,
   enterpriseValue |-> Some(priceData.price
                   * Get(closestSharesData).commonStockSharesOutstanding),
   isInternational |-> TRUE,
   lastUpdated |-> lastUpdated]

\* metrics.push({...}) of the foreign branch
ForeignRow(ticker, priceData, closestSharesData, lastUpdated) ==
  [ticker |-> ticker,
   symbol |-> ticker,
   date |-> priceData.date,
   price |-> priceData.price,
   volume |-> priceData.volume,
   marketCap |-> priceData.price
                   * Get(closestSharesData).commonStockSharesOutstanding,
   peRatioTTM |-> Null,
   psRatioTTM |-> Null,
   pbRatioTTM |-> Null,
   enterpriseValue |-> Null,
   isInternational |-> TRUE,
   lastUpdated |-> lastUpdated]

\* a test that passes any record that has the field, zero or not
ForeignEmitsDefined(closestSharesData) ==
  /\ ~IsNull(closestSharesData)
  /\ Defined(Get(closestSharesData), "commonStockSharesOutstanding")

\* if (closestSharesData && closestSharesData.commonStockSharesOutstanding)
ForeignEmits(closestSharesData) ==
  /\ ~IsNull(closestSharesData)
  /\ Truthy(Get(closestSharesData), "commonStockSharesOutstanding")

---------------------------------------------------------------------------
(* the domestic branch of the loop body *)

\* the filter left out: every quarter counts as available
AvailableQuartersAll(allQuarters, date) == allQuarters

\* allQuarters.filter((q) => q.date <= priceData.date)
AvailableQuarters(allQuarters, date) ==
  SelectSeq(allQuarters, LAMBDA q : q.date <= date)

\* s.slice(-n)
SliceLast(s, n) ==
  IF Len(s) <= n THEN s ELSE SubSeq(s, Len(s) - n + 1, Len(s))

\* s.reduce((sum, q) => sum + (q.f || 0), 0)
RECURSIVE SumField(_, _)
SumField(s, f) ==
  IF s = <<>> THEN 0 ELSE OrZero(Head(s), f) + SumField(Tail(s), f)

\* the sum left unscaled
ScaleFactorUnscaled(quartersAvailable) ==
  IF quartersAvailable > 0 THEN FracOfInt(1) ELSE FracZero

\* quartersAvailable > 0 ? 4 / quartersAvailable : 0
ScaleFactor(quartersAvailable) ==
  IF quartersAvailable > 0 THEN Frac(QuartersPerYear, quartersAvailable)
  ELSE FracZero

TtmQuartersOf(availableQuarters) == SliceLast(availableQuarters, TtmWindow)

\* a scale factor that counts only the quarters that carry the field
TtmOfPresentOnly(ttmQuarters, f) ==
  FracMul(FracOfInt(SumField(ttmQuarters, f)),
          ScaleFactor(Len(SelectSeq(ttmQuarters, LAMBDA q : Defined(q, f)))))

\* sumNetIncome * scaleFactor, sumTotalRevenue * scaleFactor
TtmOf(ttmQuarters, f) ==
  FracMul(FracOfInt(SumField(ttmQuarters, f)), ScaleFactor(Len(ttmQuarters)))

\* the test den !== 0 where the code has den > 0
RatioOrNullNonZero(marketCap, den) ==
  IF den.num # 0 THEN Some(FracDiv(FracOfInt(marketCap), den)) ELSE Null

\* den > 0 ? marketCap / den : null
RatioOrNull(marketCap, den) ==
  IF FracPositive(den) THEN Some(FracDiv(FracOfInt(marketCap), den)) ELSE Null

\* latestQuarter.totalStockholderEquity > 0 ? marketCap / equity : null
PbRatio(marketCap, latestQuarter) ==
  IF Defined(latestQuarter, "totalStockholderEquity")
       /\ latestQuarter.totalStockholderEquity > 0
  THEN Some(Frac(marketCap, latestQuarter.totalStockholderEquity))
  ELSE Null

\* the if around the enterprise value computation
HasDebtOrCashField(latestQuarter) ==
  \/ Defined(latestQuarter, "longTermDebt")
  \/ Defined(latestQuarter, "shortTermDebt")
  \/ Defined(latestQuarter, "shortLongTermDebt")
  \/ Defined(latestQuarter, "cashAndShortTermInvestments")
  \/ Defined(latestQuarter, "cash")

TotalDebt(latestQuarter) ==
  OrZero(latestQuarter, "longTermDebt")
    + OrZero(latestQuarter, "shortTermDebt")
    + OrZero(latestQuarter, "shortLongTermDebt")

\* latestQuarter.cashAndShortTermInvestments || latestQuarter.cash || 0
CashOf(latestQuarter) ==
  IF Truthy(latestQuarter, "cashAndShortTermInvestments")
  THEN latestQuarter.cashAndShortTermInvestments
  ELSE OrZero(latestQuarter, "cash")

\* the enterprise value falling back to marketCap without any field
EnterpriseValueDefaulting(marketCap, latestQuarter) ==
  Some(marketCap + TotalDebt(latestQuarter) - CashOf(latestQuarter))

EnterpriseValue(marketCap, latestQuarter) ==
  IF HasDebtOrCashField(latestQuarter)
  THEN Some(marketCap + TotalDebt(latestQuarter) - CashOf(latestQuarter))
  ELSE Null

\* the volume taken for the price
MarketCapByVolume(priceData, latestQuarter) ==
  priceData.volume * latestQuarter.commonStockSharesOutstanding

\* const marketCap = priceData.price * sharesOutstanding
MarketCap(priceData, latestQuarter) ==
  priceData.price * latestQuarter.commonStockSharesOutstanding

\* the row dated by its statement instead of its price observation
DomesticRowDatedByStatement(ticker, priceData, availableQuarters, lastUpdated) ==
  LET latestQuarter == availableQuarters[Len(availableQuarters)]
      marketCap == MarketCap(priceData, latestQuarter)
      ttmQuarters == TtmQuartersOf(availableQuarters)
  IN [ticker |-> ticker,
      symbol |-> ticker,
      date |-> latestQuarter.date,
      price |-> priceData.price,
      volume |-> priceData.volume,
      marketCap |-> marketCap,
      peRatioTTM |-> RatioOrNull(marketCap, TtmOf(ttmQuarters, "netIncome")),
      psRatioTTM |-> RatioOrNull(marketCap, TtmOf(ttmQuarters, "totalRevenue")),
      pbRatioTTM |-> PbRatio(marketCap, latestQuarter),
      enterpriseValue |-> EnterpriseValue(marketCap, latestQuarter),
      isInternational |-> FALSE,
      lastUpdated |-> lastUpdated]

DomesticRow(ticker, priceData, availableQuarters, lastUpdated) ==
  LET latestQuarter == availableQuarters[Len(availableQuarters)]
      marketCap == MarketCap(priceData, latestQuarter)
      ttmQuarters == TtmQuartersOf(availableQuarters)
      ttmNetIncome == TtmOf(ttmQuarters, "netIncome")
      ttmTotalRevenue == TtmOf(ttmQuarters, "totalRevenue")
  IN [ticker |-> ticker,
      symbol |-> ticker,
      date |-> priceData.date,
      price |-> priceData.price,
      volume |-> priceData.volume,
      marketCap |-> marketCap,
      peRatioTTM |-> RatioOrNull(marketCap, ttmNetIncome),
      psRatioTTM |-> RatioOrNull(marketCap, ttmTotalRevenue),
      pbRatioTTM |-> PbRatio(marketCap, latestQuarter),
      enterpriseValue |-> EnterpriseValue(marketCap, latestQuarter),
      isInternational |-> FALSE,
      lastUpdated |-> lastUpdated]

\* neither continue of the loop body is taken
DomesticEmits(availableQuarters) ==
  /\ Len(availableQuarters) > 0
  /\ Truthy(availableQuarters[Len(availableQuarters)],
            "commonStockSharesOutstanding")

---------------------------------------------------------------------------
(* The inputs of a derivation: what the provider and the collections hold *)

\* the ticker of the derivation
Ticker == "AAA"

\* the provider's daily row of trading day D: its date is midnight UTC
EodRow(D) == [date |-> 24 * D, close |-> 25 * D, volume |-> 1000 + D]

\* the provider's answer for the range of days from..to
EodRows(from, to) == [k \in 1..(to - from + 1) |-> EodRow(from + k - 1)]

\* the instants a document can be dated: the midnights and the market closes
StatementInstants ==
  {24 * D : D \in 0..(MaxDay - 1)} \cup {24 * D - 3 : D \in 1..MaxDay}

RECURSIVE SortInts(_)
SortInts(S) ==
  IF S = {} THEN <<>>
  ELSE LET m == CHOOSE x \in S : \A y \in S : x <= y
       IN <<m>> \o SortInts(S \ {m})

InstantSeq == SortInts(StatementInstants)

EmptyDoc == [x \in {} |-> 0]
\* the field f with the value of o, or no field when o is Null
Field(f, o) == IF IsNull(o) THEN EmptyDoc ELSE f :> Get(o)
Optional(V) == {Null} \cup {Some(v) : v \in V}

\* a full statement whose values all depend on its date
PatternQuarter(t) ==
  [date |-> t, commonStockSharesOutstanding |-> 10 + t, netIncome |-> 100 + t,
   totalRevenue |-> 300 + t, totalStockholderEquity |-> 200 + t,
   longTermDebt |-> 7 + t, shortTermDebt |-> 5 + t, shortLongTermDebt |-> 3 + t,
   cashAndShortTermInvestments |-> 11 + t, cash |-> 2 + t]

PatternShares(t) == [date |-> t, commonStockSharesOutstanding |-> 10 + t]

\* documents at any dates, both classifications, any price range
AsOfInputs ==
  {[intl |-> b,
    docs |-> {IF b THEN PatternShares(t) ELSE PatternQuarter(t) : t \in T},
    rows |-> EodRows(from, MaxDay)] :
     b \in BOOLEAN,
     T \in {U \in SUBSET StatementInstants : Cardinality(U) <= MaxQuarters},
     from \in 1..(MaxDay + 1)}

IncomeChoices == Optional({-100, 100, 120})
RevenueChoices == Optional({-200, 300})
SharesChoices == Optional({0, 10})

\* n statements at the first n instants whose netIncome varies
TtmInputs ==
  {[intl |-> FALSE,
    docs |-> {[date |-> InstantSeq[k], commonStockSharesOutstanding |-> 10,
               totalRevenue |-> 300] @@ Field("netIncome", c[k]) : k \in 1..n},
    rows |-> EodRows(2, 3)] :
     n \in 1..MaxQuarters, c \in [1..MaxQuarters -> IncomeChoices]}

\* three statements with incomes 100, 120, 110 and 10 shares, priced at 50
ExampleInputs ==
  {[intl |-> FALSE,
    docs |-> {[date |-> InstantSeq[k], commonStockSharesOutstanding |-> 10,
               totalRevenue |-> 300, netIncome |-> <<100, 120, 110>>[k]] :
              k \in 1..3},
    rows |-> EodRows(2, 2)]}

\* n statements at the first n instants whose totalRevenue varies
RevenueInputs ==
  {[intl |-> FALSE,
    docs |-> {[date |-> InstantSeq[k], commonStockSharesOutstanding |-> 10,
               netIncome |-> 100] @@ Field("totalRevenue", c[k]) : k \in 1..n},
    rows |-> EodRows(2, 3)] :
     n \in 1..MaxQuarters, c \in [1..MaxQuarters -> RevenueChoices]}

\* n documents at the first n instants whose shares outstanding vary
SharesInputs ==
  {[intl |-> b,
    docs |-> {(IF b THEN [date |-> InstantSeq[k]]
               ELSE [date |-> InstantSeq[k], netIncome |-> 100,
                     totalRevenue |-> 300, totalStockholderEquity |-> 250])
              @@ Field("commonStockSharesOutstanding", c[k]) : k \in 1..n},
    rows |-> EodRows(1, 3)] :
     b \in BOOLEAN, n \in 1..MaxQuarters, c \in [1..MaxQuarters -> SharesChoices]}

\* one statement whose balance-sheet fields vary, between two optional
\* full statements
SheetInputs ==
  {[intl |-> FALSE,
    docs |-> {[date |-> InstantSeq[2], commonStockSharesOutstanding |-> 10,
               netIncome |-> 100, totalRevenue |-> 300]
              @@ Field("totalStockholderEquity", eq)
              @@ Field("longTermDebt", ltd) @@ Field("shortTermDebt", std)
              @@ Field("shortLongTermDebt", sltd)
              @@ Field("cashAndShortTermInvestments", csti) @@ Field("cash", csh)}
             \cup {PatternQuarter(InstantSeq[k]) : k \in others},
    rows |-> EodRows(1, 2)] :
     eq \in Optional({-50, 0, 250}),
     ltd \in Optional({0, 1}), std \in Optional({0, 2}), sltd \in Optional({0, 4}),
     csti \in Optional({0, 8}), csh \in Optional({0, 16}),
     others \in SUBSET {1, 4}}

Inputs == AsOfInputs \cup TtmInputs \cup ExampleInputs \cup RevenueInputs
            \cup SharesInputs \cup SheetInputs

---------------------------------------------------------------------------
(* The clock *)

\* new Date() / Date.now(): the program reads the current instant
ReadClock == /\ nowRead' = TRUE
             /\ now' = now

\* an awaited call (a request to a store or the provider, a timer) takes
\* time: it ends at an instant later than any the program has read
AwaitedCall == /\ now' = IF nowRead THEN now + 1 ELSE now
               /\ nowRead' = FALSE

---------------------------------------------------------------------------
(* The stores and the load before any saveMetrics call *)

NoManager ==
  [tempTable |-> -1, tableName |-> "none", exists |-> FALSE, iterations |-> 0,
   creates |-> 0, waited |-> 0, inserted |-> 0, inserts |-> 0, merges |-> 0,
   mergeFailed |-> FALSE, dropFailed |-> FALSE]

\* no second saveMetrics call is in progress
NoPeer == [lpc |-> "idle", batch |-> <<>>, mgr |-> NoManager, outcome |-> "none"]

\* filterNumericFields has not been called
NoFilter ==
  /\ data = <<>>
  /\ filtered = Null

NoLoad ==
  /\ now = 0
  /\ nowRead = FALSE
  /\ mongo = {}
  /\ durable = [created |-> FALSE, visible |-> FALSE, rows |-> <<>>]
  /\ staging = <<>>
  /\ lpc = "idle"
  /\ batch = <<>>
  /\ mgr = NoManager
  /\ outcome = "none"
  /\ loads = 0
  /\ prevBatch = <<>>
  /\ prevOutcome = "none"
  /\ snap = <<>>
  /\ base = <<>>
  /\ peer = NoPeer

---------------------------------------------------------------------------
(* calculateHistoricalMetrics as a state machine *)

\* the tickers of the collections
Tickers == {"AAA", "BBB", "CCC", "DDD", "EEE"}

\* nothing has been invoked, requested or queried
NoCalls ==
  [derive |-> [t \in Tickers |-> 0], fetch |-> [t \in Tickers |-> 0],
   query |-> [t \in Tickers |-> 0]]

\* no run of hydrateAllData or refreshPriceData
NoRun ==
  /\ calls = NoCalls
  /\ intlListed = {}
  /\ mode = "none"
  /\ allTickers = <<>>
  /\ intlTickerSet = {}
  /\ rpc = "none"
  /\ bi = 0
  /\ tasks = <<>>
  /\ allMetrics = <<>>

NoIteration ==
  [k |-> 0, asOf |-> Null, emitted |-> FALSE, ttmQuarters |-> <<>>,
   quartersAvailable |-> 0, ttmNetIncome |-> FracZero,
   ttmTotalRevenue |-> FracZero]

Init ==
  /\ \E inp \in Inputs :
       /\ isInternational = inp.intl
       /\ docs = inp.docs
       /\ eodRows = inp.rows
  /\ pc = "start"
  /\ priceDataPoints = <<>>
  /\ records = <<>>
  /\ i = 1
  /\ metrics = <<>>
  /\ it = NoIteration
  /\ NoLoad
  /\ NoRun
  /\ NoFilter

\* if (priceDataPoints.length === 0) { console.log(...); return [] }
AfterFetch(result) == IF Len(result) = 0 THEN "done" ELSE "query"

\* a query without documents that throws instead of returning
AfterQueryRaising(result) == IF Len(result) = 0 THEN "raised" ELSE "loop"

\* if (!intlStockData || intlStockData.length === 0) return [], and the same
\* test of allQuarters
AfterQuery(result) == IF Len(result) = 0 THEN "done" ELSE "loop"

\* await this.getHistoricalPriceData(...): a failed request is caught there
\* and answers []; no price data returns []
FetchPrices ==
  /\ pc = "start"
  /\ \E failed \in BOOLEAN :
       LET result == IF failed THEN <<>> ELSE MapPriceData(eodRows)
       IN /\ priceDataPoints' = result
          /\ pc' = AfterFetch(result)
  /\ AwaitedCall
  /\ UNCHANGED <<isInternational, eodRows, docs, records, i, metrics, it>>
  /\ UNCHANGED <<storeVars, loadVars, historyVars, runVars, peer, calls,
                 intlListed, data, filtered>>

\* await InternationalStock.find / QuarterlyFinancialsModel.find: a failed
\* query is caught by the outer catch, and no document returns []
QueryRecords ==
  /\ pc = "query"
  /\ \E failed \in BOOLEAN :
       LET result == IF failed THEN <<>> ELSE SortByDate(docs)
       IN /\ records' = result
          /\ pc' = AfterQuery(result)
  /\ AwaitedCall
  /\ UNCHANGED <<isInternational, eodRows, docs, priceDataPoints, i, metrics, it>>
  /\ UNCHANGED <<storeVars, loadVars, historyVars, runVars, peer, calls,
                 intlListed, data, filtered>>

PushFront(rows, row) == <<row>> \o rows

\* metrics.push({ ... }): the row goes after the rows already collected
Push(rows, row) == Append(rows, row)

\* one iteration of for (const priceData of priceDataPoints), foreign branch
LoopForeign ==
  /\ pc = "loop"
  /\ isInternational
  /\ i <= Len(priceDataPoints)
  /\ LET priceData == priceDataPoints[i]
         closestSharesData == ClosestSharesData(records, priceData.date)
         emits == ForeignEmits(closestSharesData)
     IN /\ metrics' = IF emits
                      THEN Push(metrics,
                             ForeignRow(Ticker, priceData, closestSharesData, now))
                      ELSE metrics
        /\ it' = [NoIteration EXCEPT !.k = i, !.asOf = closestSharesData,
                                     !.emitted = emits]
        /\ IF emits THEN ReadClock ELSE UNCHANGED clockVars
  /\ i' = i + 1
  /\ UNCHANGED <<isInternational, eodRows, docs, pc, priceDataPoints, records>>
  /\ UNCHANGED <<storeVars, loadVars, historyVars, runVars, peer, calls,
                 intlListed, data, filtered>>

\* one iteration of for (const priceData of priceDataPoints), domestic branch
LoopDomestic ==
  /\ pc = "loop"
  /\ ~isInternational
  /\ i <= Len(priceDataPoints)
  /\ LET priceData == priceDataPoints[i]
         availableQuarters == AvailableQuarters(records, priceData.date)
         emits == DomesticEmits(availableQuarters)
         ttmQuarters == TtmQuartersOf(availableQuarters)
     IN /\ metrics' = IF emits
                      THEN Push(metrics,
                             DomesticRow(Ticker, priceData, availableQuarters, now))
                      ELSE metrics
        /\ it' = IF emits
                 THEN [k |-> i,
                       asOf |-> Some(availableQuarters[Len(availableQuarters)]),
                       emitted |-> TRUE,
                       ttmQuarters |-> ttmQuarters,
                       quartersAvailable |-> Len(ttmQuarters),
                       ttmNetIncome |-> TtmOf(ttmQuarters, "netIncome"),
                       ttmTotalRevenue |-> TtmOf(ttmQuarters, "totalRevenue")]
                 ELSE [NoIteration EXCEPT
                         !.k = i,
                         !.asOf = IF Len(availableQuarters) = 0 THEN Null
                                  ELSE Some(availableQuarters[Len(availableQuarters)])]
        /\ IF emits THEN ReadClock ELSE UNCHANGED clockVars
  /\ i' = i + 1
  /\ UNCHANGED <<isInternational, eodRows, docs, pc, priceDataPoints, records>>
  /\ UNCHANGED <<storeVars, loadVars, historyVars, runVars, peer, calls,
                 intlListed, data, filtered>>

\* return metrics
Return ==
  /\ pc = "loop"
  /\ i > Len(priceDataPoints)
  /\ pc' = "done"
  /\ UNCHANGED <<isInternational, eodRows, docs, priceDataPoints, records, i,
                 metrics, it>>
  /\ UNCHANGED <<clockVars, storeVars, loadVars, historyVars, runVars, peer, calls,
                 intlListed, data, filtered>>

Next ==
  \/ FetchPrices
  \/ QueryRecords
  \/ LoopForeign
  \/ LoopDomestic
  \/ Return

Spec == Init /\ [][Next]_vars

---------------------------------------------------------------------------
(* The batches handed to saveMetrics: rows as derivations produce them, one
   row per (ticker, date) *)

RowA1 ==
  DomesticRow("AAA", [date |-> 21, price |-> 25, volume |-> 1001],
              <<PatternQuarter(0)>>, 0)
\* the same key derived again after the provider corrected the close
RowA1Again ==
  DomesticRow("AAA", [date |-> 21, price |-> 26, volume |-> 1001],
              <<PatternQuarter(0)>>, 1)
RowA2 ==
  DomesticRow("AAA", [date |-> 45, price |-> 50, volume |-> 1002],
              <<PatternQuarter(0), PatternQuarter(24)>>, 0)
RowB1 ==
  ForeignRow("BBB", [date |-> 21, price |-> 7, volume |-> 501],
             Some(PatternShares(0)), 0)

\* allMetrics: the rows of a batch, grouped by ticker, ascending by date
Batches ==
  {<<>>, <<RowA1>>, <<RowA1Again, RowA2>>, <<RowA1, RowA2, RowB1>>}

---------------------------------------------------------------------------
(* saveMetrics: the operational store *)

SameKey(r, m) == r.ticker = m.ticker /\ r.date = m.date

\* an insertOne in place of the keyed upsert
MongoInsert(coll, metric) == coll \cup {metric}

\* updateOne: { filter: { ticker, date }, update: { $set: metric }, upsert }
MongoUpsert(coll, metric) ==
  {r \in coll : ~SameKey(r, metric)} \cup {metric}

\* the first n operations of bulkOps applied in order
RECURSIVE ApplyOps(_, _, _)
ApplyOps(coll, ops, n) ==
  IF n = 0 THEN coll
  ELSE MongoUpsert(ApplyOps(coll, ops, n - 1), ops[n])

---------------------------------------------------------------------------
(* PriceMetricsDataManager *)

\* moment(date).format("YYYY-MM-DD HH:mm:ss.SSSZ"): local day and hour with
\* the zone offset
FormatTimestamp(date) ==
  [day |-> (date + LocalUtcOffset) \div 24,
   hour |-> (date + LocalUtcOffset) % 24,
   offset |-> LocalUtcOffset]

\* BigQuery.timestamp(string): the instant the store reads from the text
ParseTimestamp(text) == text.day * 24 + text.hour - text.offset

\* the row of insertPriceMetricsToTempTable's rows for item
StageRow(item) ==
  [item EXCEPT !.date = ParseTimestamp(FormatTimestamp(item.date)),
               !.lastUpdated = ParseTimestamp(FormatTimestamp(item.lastUpdated))]

StageRows(items) == [k \in 1..Len(items) |-> StageRow(items[k])]

\* ON T.ticker = S.ticker AND T.date = S.date
KeyMatches(t, src) == t.ticker = src.ticker /\ t.date = src.date

\* an update that adds the staged volume to the stored one
UpdateSetAccumulating(t, src) ==
  [t EXCEPT !.price = src.price, !.volume = @ + src.volume,
            !.marketCap = src.marketCap, !.peRatioTTM = src.peRatioTTM,
            !.psRatioTTM = src.psRatioTTM, !.pbRatioTTM = src.pbRatioTTM,
            !.enterpriseValue = src.enterpriseValue,
            !.isInternational = src.isInternational,
            !.lastUpdated = src.lastUpdated]

\* WHEN MATCHED THEN UPDATE SET ...: every column but ticker, symbol, date
UpdateSet(t, src) ==
  [t EXCEPT !.price = src.price, !.volume = src.volume,
            !.marketCap = src.marketCap, !.peRatioTTM = src.peRatioTTM,
            !.psRatioTTM = src.psRatioTTM, !.pbRatioTTM = src.pbRatioTTM,
            !.enterpriseValue = src.enterpriseValue,
            !.isInternational = src.isInternational,
            !.lastUpdated = src.lastUpdated]

Matching(t, source) == {k \in 1..Len(source) : KeyMatches(t, source[k])}

\* the store refuses a MERGE in which two source rows match one target row
MergeRefused(target, source) ==
  \E j \in 1..Len(target) : Cardinality(Matching(target[j], source)) > 1

\* a merge that also deletes the rows the staging table does not have
MergeRowsSynchronising(target, source) ==
  SelectSeq(target, LAMBDA t : Matching(t, source) # {}) \o source

\* a load that appends the staged rows without matching them
MergeRowsAppend(target, source) == target \o source

\* the MERGE statement on the rows of the main table T and the temp table S
MergeRows(target, source) ==
  LET updated == [j \in 1..Len(target) |->
                    IF Matching(target[j], source) = {} THEN target[j]
                    ELSE UpdateSet(target[j],
                           source[CHOOSE k \in Matching(target[j], source) : TRUE])]
      unmatched == SelectSeq(source,
                     LAMBDA src : \A j \in 1..Len(target) :
                                    ~KeyMatches(target[j], src))
  IN updated \o unmatched

\* a staging table of one fixed name
TempTableNameFixed(timestamp) == 0

\* this.tempTable = `${this.table}_temp_${Date.now()}`
TempTableName(timestamp) == timestamp

\* a table that no call finds, so that it is created anew every time
TableCreatedNever(name) == FALSE

\* the table that createTable, insert or the statements name
TableCreated(name) ==
  IF name = "main" THEN durable.created ELSE mgr.tempTable \in DOMAIN staging

TableVisible(name) ==
  IF name = "main" THEN durable.visible
  ELSE mgr.tempTable \in DOMAIN staging /\ staging[mgr.tempTable].visible

\* what table.exists() can answer: a table's metadata converges some time
\* after its creation
ExistsAnswers(name) ==
  IF ~TableCreated(name) THEN {FALSE}
  ELSE IF TableVisible(name) THEN {TRUE}
  ELSE BOOLEAN

\* the table seen by exists() is visible from then on
WithVisible(name, seen) ==
  IF ~seen THEN UNCHANGED <<durable, staging>>
  ELSE IF name = "main"
  THEN /\ durable' = [durable EXCEPT !.visible = TRUE]
       /\ UNCHANGED staging
  ELSE /\ staging' = [staging EXCEPT ![mgr.tempTable].visible = TRUE]
       /\ UNCHANGED durable

\* setTimeout(resolve, 2 ** iterations * 1000), in seconds
WaitSeconds(iterations) == 2 ^ iterations

\* a loop that creates the table again on every pass
LoopTestRecreating(name, exists, iterations) ==
  IF ~exists /\ iterations < MaxIterations
  THEN "create"
  ELSE (IF name = "main" THEN "existsTemp" ELSE "insert")

\* where createTable goes after a test of while (!exists && iterations < 3)
LoopTest(name, exists, iterations) ==
  IF ~exists /\ iterations < MaxIterations
  THEN (IF iterations = 0 THEN "create" ELSE "recheck")
  ELSE (IF name = "main" THEN "existsTemp" ELSE "insert")

---------------------------------------------------------------------------
(* saveMetrics as a state machine *)

\* the error reaches saveMetrics' catch, which logs and rethrows it
Throws ==
  /\ lpc' = "idle"
  /\ outcome' = "error"
  /\ mgr' = NoManager

\* the entry of saveMetrics(metrics): an empty batch returns at once
CallSaveMetrics(metricsArg) ==
  /\ batch' = metricsArg
  /\ lpc' = IF Len(metricsArg) = 0 THEN "idle" ELSE "bulkWrite"
  /\ outcome' = IF Len(metricsArg) = 0 THEN "ok" ELSE "running"
  /\ base' = IF outcome \in {"error", "crashed"} /\ metricsArg = batch
             THEN base ELSE durable.rows
  /\ loads' = loads + 1
  /\ mgr' = NoManager
  /\ prevBatch' = batch
  /\ prevOutcome' = outcome
  /\ snap' = durable.rows

\* saveMetrics(metrics) is called with some batch
StartSave ==
  /\ lpc = "idle"
  /\ loads < MaxLoads
  /\ \E metricsArg \in Batches : CallSaveMetrics(metricsArg)
  /\ UNCHANGED <<deriveVars, intlListed, data, filtered, peer, calls, runVars, clockVars, storeVars>>

\* a bulkWrite whose failure is not noticed
BulkWriteUnchecked(n, ops) == TRUE

\* await PriceMetricsModel.bulkWrite(bulkOps) returns when every operation
\* has been applied, and throws otherwise
BulkWriteCompleted(n, ops) == n = Len(ops)

\* await PriceMetricsModel.bulkWrite(bulkOps): ordered, so a failure leaves
\* the operations before it applied
BulkWrite ==
  /\ lpc = "bulkWrite"
  /\ \E n \in 0..Len(batch) :
       /\ mongo' = ApplyOps(mongo, batch, n)
       /\ IF BulkWriteCompleted(n, batch)
          THEN lpc' = "new" /\ UNCHANGED <<outcome, mgr>>
          ELSE Throws
  /\ AwaitedCall
  /\ UNCHANGED <<deriveVars, intlListed, data, filtered, peer, calls, runVars, durable, staging, batch, loads, historyVars>>

\* new PriceMetricsDataManager(); createTableIfNotExists starts
NewManager ==
  /\ lpc = "new"
  /\ mgr' = [NoManager EXCEPT !.tempTable = TempTableName(now),
                              !.tableName = "main"]
  /\ ReadClock
  /\ lpc' = "exists"
  /\ UNCHANGED <<deriveVars, intlListed, data, filtered, peer, calls, runVars, storeVars, batch, outcome, loads, historyVars>>

\* createTable: let [exists] = await table.exists(); let iterations = 0
FirstExists ==
  /\ lpc \in {"exists", "existsTemp"}
  /\ LET name == IF lpc = "exists" THEN "main" ELSE "temp"
     IN \/ /\ \E seen \in ExistsAnswers(name) :
                /\ mgr' = [mgr EXCEPT !.tableName = name, !.exists = seen,
                                      !.iterations = 0, !.creates = 0,
                                      !.waited = 0]
                /\ WithVisible(name, seen)
                /\ lpc' = LoopTest(name, seen, 0)
           /\ UNCHANGED outcome
        \/ /\ Throws
           /\ UNCHANGED <<durable, staging>>
  /\ AwaitedCall
  /\ UNCHANGED <<deriveVars, intlListed, data, filtered, peer, calls, runVars, mongo, batch, loads, historyVars>>

\* await table.create({ schema }) on the first iteration
CreateTable ==
  /\ lpc = "create"
  /\ \/ /\ ~TableCreated(mgr.tableName)
        /\ IF mgr.tableName = "main"
           THEN /\ durable' = [created |-> TRUE, visible |-> FALSE, rows |-> <<>>]
                /\ UNCHANGED staging
           ELSE /\ staging' = staging @@
                     (mgr.tempTable :> [visible |-> FALSE, rows |-> <<>>])
                /\ UNCHANGED durable
        /\ lpc' = "recheck"
        /\ mgr' = [mgr EXCEPT !.creates = @ + 1]
        /\ UNCHANGED outcome
     \/ /\ Throws
        /\ UNCHANGED <<durable, staging>>
  /\ AwaitedCall
  /\ UNCHANGED <<deriveVars, intlListed, data, filtered, peer, calls, runVars, mongo, batch, loads, historyVars>>

\* iterations++; [exists] = await table.exists()
Recheck ==
  /\ lpc = "recheck"
  /\ \/ /\ \E seen \in ExistsAnswers(mgr.tableName) :
             /\ mgr' = [mgr EXCEPT !.exists = seen,
                                   !.iterations = mgr.iterations + 1]
             /\ WithVisible(mgr.tableName, seen)
        /\ lpc' = "wait"
        /\ UNCHANGED outcome
     \/ /\ Throws
        /\ UNCHANGED <<durable, staging>>
  /\ AwaitedCall
  /\ UNCHANGED <<deriveVars, intlListed, data, filtered, peer, calls, runVars, mongo, batch, loads, historyVars>>

\* await new Promise((resolve) => setTimeout(resolve, 2 ** iterations * 1000))
Wait ==
  /\ lpc = "wait"
  /\ mgr' = [mgr EXCEPT !.waited = WaitSeconds(mgr.iterations)]
  /\ lpc' = LoopTest(mgr.tableName, mgr.exists, mgr.iterations)
  /\ AwaitedCall
  /\ UNCHANGED <<deriveVars, intlListed, data, filtered, peer, calls, runVars, storeVars, batch, outcome, loads,
                 historyVars>>

\* a slice that leaves out the last row of every full sub-batch
SliceShort(rows, from) ==
  SubSeq(rows, from + 1,
         IF from + InsertBatchSize <= Len(rows)
         THEN from + InsertBatchSize - 1 ELSE Len(rows))

\* rows.slice(i, i + batchSize)
Slice(rows, from) ==
  SubSeq(rows, from + 1,
         IF from + InsertBatchSize < Len(rows)
         THEN from + InsertBatchSize ELSE Len(rows))

\* a failed insert after which the staging table is dropped
InsertThrowsDropping ==
  /\ Throws
  /\ staging' = [t \in DOMAIN staging \ {mgr.tempTable} |-> staging[t]]

\* table.insert(batch) throws: insertPriceMetricsToTempTable's catch logs and
\* rethrows, and so does saveMetrics'; mergeTempTableToMainTable, whose
\* finally holds the drop, is not called
InsertThrows ==
  /\ Throws
  /\ UNCHANGED staging

\* insertPriceMetricsToTempTable: if (!metrics.length) return, without a
\* call to the store
InsertNothing ==
  /\ lpc = "insert"
  /\ Len(batch) = 0
  /\ lpc' = "merge"
  /\ UNCHANGED <<deriveVars, intlListed, data, filtered, peer, calls, runVars, clockVars, storeVars, batch,
                 mgr, outcome, loads, historyVars>>

\* insertPriceMetricsToTempTable: await table.insert(batch) of one sub-batch
\* and i += batchSize
InsertBatch ==
  /\ lpc = "insert"
  /\ Len(batch) > 0
  /\ \/ /\ mgr.tempTable \in DOMAIN staging
        /\ LET rows == StageRows(batch)
               upto == IF mgr.inserted + InsertBatchSize < Len(rows)
                       THEN mgr.inserted + InsertBatchSize ELSE Len(rows)
           IN /\ staging' = [staging EXCEPT ![mgr.tempTable].rows =
                               @ \o Slice(rows, mgr.inserted)]
              /\ mgr' = [mgr EXCEPT !.inserted = upto, !.inserts = @ + 1]
              /\ lpc' = IF upto < Len(rows) THEN "insert" ELSE "merge"
        /\ UNCHANGED outcome
     \/ InsertThrows
  /\ AwaitedCall
  /\ UNCHANGED <<deriveVars, intlListed, data, filtered, peer, calls, runVars, mongo, durable, batch, loads, historyVars>>

\* a merge whose error leaves the function before the staging table is dropped
AfterMergeQueryNoFinally(failed) == IF failed THEN "idle" ELSE "drop"

\* a merge that is issued again after it failed
AfterMergeQueryRetrying(failed) == IF failed THEN "merge" ELSE "drop"

\* try { merge } catch { throw } finally { drop }: the drop comes next, the
\* merge having failed or not
AfterMergeQuery(failed) == "drop"

\* a drop whose error replaces the outcome of the merge
LoadOutcomeDropMasks(mergeFailed, dropFailed) ==
  IF mergeFailed \/ dropFailed THEN "error" ELSE "ok"

\* the drop's error is caught and logged; the merge's error, if any, is the
\* one rethrown
LoadOutcome(mergeFailed, dropFailed) ==
  IF mergeFailed THEN "error" ELSE "ok"

\* mergeTempTableToMainTable: await this.bigquery.query({ query: mergeQuery });
\* the statement is atomic, and its answer can be lost after it took effect
Merge ==
  /\ lpc = "merge"
  /\ \/ /\ durable.created
        /\ mgr.tempTable \in DOMAIN staging
        /\ ~MergeRefused(durable.rows, staging[mgr.tempTable].rows)
        /\ durable' = [durable EXCEPT !.rows =
                         MergeRows(@, staging[mgr.tempTable].rows)]
        /\ \E answered \in BOOLEAN :
             mgr' = [mgr EXCEPT !.mergeFailed = ~answered, !.merges = @ + 1]
     \/ /\ UNCHANGED durable
        /\ mgr' = [mgr EXCEPT !.mergeFailed = TRUE, !.merges = @ + 1]
  /\ lpc' = AfterMergeQuery(mgr'.mergeFailed)
  /\ AwaitedCall
  /\ UNCHANGED <<deriveVars, intlListed, data, filtered, peer, calls, runVars, mongo, staging, batch, outcome, loads, historyVars>>

\* finally: await this.bigquery.query({ query: dropTempTableQuery }) with
\* DROP TABLE IF EXISTS, which can fail
DropTemp ==
  /\ lpc = "drop"
  /\ \/ /\ staging' = [t \in DOMAIN staging \ {mgr.tempTable} |-> staging[t]]
        /\ mgr' = [mgr EXCEPT !.dropFailed = FALSE]
     \/ /\ UNCHANGED staging
        /\ mgr' = [mgr EXCEPT !.dropFailed = TRUE]
  /\ lpc' = "finish"
  /\ AwaitedCall
  /\ UNCHANGED <<deriveVars, intlListed, data, filtered, peer, calls, runVars, mongo, durable, batch, outcome, loads,
                 historyVars>>

\* the finally block ends: a failed drop was logged and swallowed, and the
\* merge error, if any, is rethrown through saveMetrics
Finish ==
  /\ lpc = "finish"
  /\ lpc' = "idle"
  /\ outcome' = LoadOutcome(mgr.mergeFailed, mgr.dropFailed)
  /\ mgr' = NoManager
  /\ UNCHANGED <<deriveVars, intlListed, data, filtered, peer, calls, runVars, clockVars, storeVars, batch, loads,
                 historyVars>>

\* the process dies in the middle of a load; the stores keep what they hold
Crash ==
  /\ lpc # "idle"
  /\ lpc' = "idle"
  /\ outcome' = "crashed"
  /\ mgr' = NoManager
  /\ AwaitedCall
  /\ UNCHANGED <<deriveVars, intlListed, data, filtered, peer, calls, runVars, storeVars, batch, loads, historyVars>>

LoadInit ==
  /\ isInternational = FALSE
  /\ docs = {}
  /\ eodRows = <<>>
  /\ pc = "done"
  /\ priceDataPoints = <<>>
  /\ records = <<>>
  /\ i = 1
  /\ metrics = <<>>
  /\ it = NoIteration
  /\ NoLoad
  /\ NoRun
  /\ NoFilter

LoadNext ==
  \/ StartSave
  \/ BulkWrite
  \/ NewManager
  \/ FirstExists
  \/ CreateTable
  \/ Recheck
  \/ Wait
  \/ InsertBatch
  \/ Merge
  \/ DropTemp
  \/ Finish
  \/ Crash

SpecLoad == LoadInit /\ [][LoadNext]_vars

---------------------------------------------------------------------------
(* insertPriceMetricsToTempTable and mergeTempTableToMainTable on any main
   table and any batch of rows *)

\* a row of RowA1's key whose symbol carries the exchange
RowA1Listed == [RowA1Again EXCEPT !.symbol = "AAA.US"]

\* tables of the schema of createPriceMetricsTable, one row per key
TableChoices ==
  {a \o b \o c : a \in {<<>>, <<RowA1>>, <<RowA1Again>>, <<RowA1Listed>>},
                 b \in {<<>>, <<RowA2>>},
                 c \in {<<>>, <<RowB1>>}}

\* a manager whose tables exist, about to stage the rows it is given
MergeInit ==
  /\ isInternational = FALSE
  /\ docs = {}
  /\ eodRows = <<>>
  /\ pc = "done"
  /\ priceDataPoints = <<>>
  /\ records = <<>>
  /\ i = 1
  /\ metrics = <<>>
  /\ it = NoIteration
  /\ NoRun
  /\ NoFilter
  /\ now = 1
  /\ nowRead = FALSE
  /\ \E target \in TableChoices, source \in TableChoices :
       /\ mongo = {source[k] : k \in 1..Len(source)}
       /\ durable = [created |-> TRUE, visible |-> TRUE, rows |-> StageRows(target)]
       /\ staging = (0 :> [visible |-> TRUE, rows |-> <<>>])
       /\ batch = source
       /\ mgr = [NoManager EXCEPT !.tempTable = 0, !.tableName = "temp",
                                  !.exists = TRUE]
       /\ snap = StageRows(target)
       /\ base = StageRows(target)
  /\ lpc = "insert"
  /\ outcome = "running"
  /\ loads = 1
  /\ prevBatch = <<>>
  /\ prevOutcome = "none"
  /\ peer = NoPeer

MergeNext ==
  \/ InsertNothing
  \/ InsertBatch
  \/ Merge
  \/ DropTemp
  \/ Finish

SpecMerge == MergeInit /\ [][MergeNext]_vars

---------------------------------------------------------------------------
(* Two saveMetrics calls in progress at once: a hydration and a refresh, or
   two processes.  Each call is the state machine above; one of them runs
   a step while the other waits for its own awaited call. *)

\* the batches of the two calls: two runs that derived the same key, or
\* different tickers
OverlapBatches == {<<RowA1>>, <<RowA1Again, RowA2>>, <<RowB1>>}

\* the event loop goes on with the other call, whose awaited call has ended
Switch ==
  /\ peer.lpc # "idle"
  /\ lpc' = peer.lpc
  /\ batch' = peer.batch
  /\ mgr' = peer.mgr
  /\ outcome' = peer.outcome
  /\ peer' = [lpc |-> lpc, batch |-> batch, mgr |-> mgr, outcome |-> outcome]
  /\ UNCHANGED <<deriveVars, intlListed, data, filtered, runVars, calls, clockVars, storeVars, loads,
                 historyVars>>

\* both calls have entered saveMetrics with a batch of rows
OverlapInit ==
  /\ isInternational = FALSE
  /\ docs = {}
  /\ eodRows = <<>>
  /\ pc = "done"
  /\ priceDataPoints = <<>>
  /\ records = <<>>
  /\ i = 1
  /\ metrics = <<>>
  /\ it = NoIteration
  /\ NoRun
  /\ NoFilter
  /\ now = 0
  /\ nowRead = FALSE
  /\ mongo = {}
  /\ \E there \in BOOLEAN :
       durable = [created |-> there, visible |-> there, rows |-> <<>>]
  /\ staging = <<>>
  /\ lpc = "bulkWrite"
  /\ batch \in OverlapBatches
  /\ mgr = NoManager
  /\ outcome = "running"
  /\ \E other \in OverlapBatches :
       peer = [lpc |-> "bulkWrite", batch |-> other, mgr |-> NoManager,
               outcome |-> "running"]
  /\ loads = 2
  /\ prevBatch = <<>>
  /\ prevOutcome = "none"
  /\ snap = <<>>
  /\ base = <<>>

OverlapNext ==
  \/ Switch
  \/ BulkWrite
  \/ NewManager
  \/ FirstExists
  \/ CreateTable
  \/ Recheck
  \/ Wait
  \/ InsertBatch
  \/ Merge
  \/ DropTemp
  \/ Finish

SpecOverlap == OverlapInit /\ [][OverlapNext]_vars

---------------------------------------------------------------------------
(* What the provider and the collections hold for the tickers of a run *)

\* the provider's daily rows of a ticker
EodOf(ticker) ==
  CASE ticker = "AAA" -> EodRows(1, 2)
    [] ticker = "CCC" -> EodRows(2, 2)
    [] ticker = "DDD" -> EodRows(1, 2)
    [] OTHER -> EodRows(1, 1)

\* the first trading day of the requested range: 30 years back for a full
\* hydration, 30 days back for a refresh
RangeFrom(runMode) == IF runMode = "hydrate" THEN 0 ELSE 2

\* eodhdClient.getHistoricalPriceData(ticker, exchange, from, to, "d")
ProviderRows(ticker, from) ==
  SelectSeq(EodOf(ticker), LAMBDA row : row.date >= 24 * from)

\* the QuarterlyFinancials documents of a ticker
QuarterDocs(ticker) ==
  CASE ticker = "AAA" -> {PatternQuarter(0)}
    [] ticker = "CCC" -> {PatternQuarter(0), PatternQuarter(24)}
    [] ticker = "DDD" -> {PatternQuarter(0)}
    [] ticker = "EEE" -> {PatternQuarter(0)}
    [] OTHER -> {}

\* the InternationalStock documents of a ticker
IntlDocs(ticker) ==
  CASE ticker = "BBB" -> {PatternShares(0)}
    [] ticker = "DDD" -> {PatternShares(0)}
    [] OTHER -> {}

\* what QuarterlyFinancialsModel.distinct("ticker") can answer
UsTickerChoices ==
  {<<>>, <<"AAA">>, <<"AAA", "CCC", "DDD">>, <<"AAA", "CCC", "DDD", "EEE">>}

\* what InternationalStock.distinct("ticker") can answer
IntlTickerChoices == {<<>>, <<"BBB", "DDD">>}

---------------------------------------------------------------------------
(* hydrateAllData / refreshPriceData *)

\* the elements of a list
SeqToSetOf(s) == {s[k] : k \in 1..Len(s)}

\* InternationalStock.distinct("ticker") answers every ticker of the
\* collection; with { updatedAt: { $gte: oneWeekAgo } } it answers those of
\* them that have a document updated in the last week
Selects(runMode, intl, listed) ==
  IF runMode = "hydrate" THEN SeqToSetOf(intl) = listed
  ELSE SeqToSetOf(intl) \subseteq listed

\* a universe that keeps a ticker of both collections twice
DedupeKeepingAll(s) == s

\* Array.from(new Set(s)): the first occurrence of each element, in order
RECURSIVE Dedupe(_)
Dedupe(s) ==
  IF Len(s) = 0 THEN <<>>
  ELSE LET front == Dedupe(SubSeq(s, 1, Len(s) - 1))
           last == s[Len(s)]
       IN IF \E k \in 1..Len(front) : front[k] = last
          THEN front ELSE Append(front, last)

\* a slice that takes every remaining ticker
BatchOfRest(tickers, from) == SubSeq(tickers, from + 1, Len(tickers))

\* allTickers.slice(i, i + batchSize)
BatchOf(tickers, from) ==
  SubSeq(tickers, from + 1,
         IF from + TickerBatchSize < Len(tickers)
         THEN from + TickerBatchSize ELSE Len(tickers))

\* the rows pushed by the first n iterations of the loop over the price points
RECURSIVE LoopRows(_, _, _, _, _, _)
LoopRows(ticker, intl, points, recs, lastUpdated, n) ==
  IF n = 0 THEN <<>>
  ELSE LET before == LoopRows(ticker, intl, points, recs, lastUpdated, n - 1)
           priceData == points[n]
           closestSharesData == ClosestSharesData(recs, priceData.date)
           availableQuarters == AvailableQuarters(recs, priceData.date)
       IN IF intl
          THEN (IF ForeignEmits(closestSharesData)
                THEN Append(before, ForeignRow(ticker, priceData,
                                               closestSharesData, lastUpdated))
                ELSE before)
          ELSE (IF DomesticEmits(availableQuarters)
                THEN Append(before, DomesticRow(ticker, priceData,
                                                availableQuarters, lastUpdated))
                ELSE before)

\* a derivation whose error escapes to the caller
CatchResultRethrown(points) ==
  [st |-> "done", points |-> points, rows |-> <<>>, failed |-> TRUE,
   rejected |-> TRUE]

\* calculateHistoricalMetrics' catch: log the error and return []
CatchResult(points) ==
  [st |-> "done", points |-> points, rows |-> <<>>, failed |-> TRUE,
   rejected |-> FALSE]

\* a derivation that returned rows
Resolved(points, rows) ==
  [st |-> "done", points |-> points, rows |-> rows, failed |-> FALSE,
   rejected |-> FALSE]

\* a derivation waiting for the provider's answer
Started ==
  [st |-> "fetch", points |-> <<>>, rows |-> <<>>, failed |-> FALSE,
   rejected |-> FALSE]

\* for (const tickerMetrics of results) allMetrics.push(...tickerMetrics)
RECURSIVE Flatten(_, _, _)
Flatten(tickers, results, n) ==
  IF n = 0 THEN <<>>
  ELSE Flatten(tickers, results, n - 1) \o results[tickers[n]].rows

\* a run that goes on when the first derivation has returned
AnyResolved(results) == \E t \in DOMAIN results : results[t].st = "done"

\* await Promise.all(batch.map(...)): every derivation has returned
AllResolved(results) == \A t \in DOMAIN results : results[t].st = "done"

\* a call of saveMetrics that is not awaited
SaveSettledUnawaited(loadPc) == TRUE

\* await this.saveMetrics(allMetrics): the run goes on when the call has ended
SaveSettled(loadPc) == loadPc = "idle"

\* a catch that logs the load's error and goes on
RethrownSwallowed(loadOutcome) == FALSE

\* saveMetrics rethrows; the run's catch logs and rethrows to the caller
Rethrown(loadOutcome) == loadOutcome = "error"

\* an awaited call ends, and new Date() is read after it when rows are pushed
AwaitThenRead(reads) ==
  /\ now' = IF nowRead THEN now + 1 ELSE now
  /\ nowRead' = reads

\* batch.map(async (ticker) => ...): calculateHistoricalMetrics is invoked for
\* every ticker of the batch and runs to its first await, the price request
Invoked(counts, batchTickers) ==
  [counts EXCEPT
     !.derive = [t \in Tickers |-> IF t \in batchTickers THEN @[t] + 1 ELSE @[t]],
     !.fetch = [t \in Tickers |-> IF t \in batchTickers THEN @[t] + 1 ELSE @[t]]]

\* InternationalStock.find({ ticker }) / QuarterlyFinancialsModel.find({ ticker })
Queried(counts, ticker) == [counts EXCEPT !.query[ticker] = @ + 1]

\* the tickers of the current batch
CurrentBatch == BatchOf(allTickers, bi)

\* the two distinct("ticker") queries and the de-duplicated universe; a
\* refresh that selects no ticker returns
RunStart ==
  /\ rpc = "start"
  /\ \/ \E us \in UsTickerChoices, intl \in IntlTickerChoices :
          /\ Selects(mode, intl, intlListed)
          /\ allTickers' = Dedupe(us \o intl)
          /\ intlTickerSet' = {intl[k] : k \in 1..Len(intl)}
          /\ rpc' = IF mode = "refresh" /\ Len(Dedupe(us \o intl)) = 0
                    THEN "done" ELSE "loop"
     \/ /\ rpc' = "failed"
        /\ UNCHANGED <<allTickers, intlTickerSet>>
  /\ AwaitedCall
  /\ UNCHANGED <<mode, bi, tasks, allMetrics>>
  /\ UNCHANGED <<deriveVars, intlListed, data, filtered, peer, calls, storeVars, loadVars, historyVars>>

\* for (let i = 0; i < allTickers.length; i += batchSize): the loop test, and
\* batch.map(async (ticker) => ...) starts every derivation of the batch
StartBatch ==
  /\ rpc = "loop"
  /\ IF bi < Len(allTickers)
     THEN /\ tasks' = [t \in {CurrentBatch[k] : k \in 1..Len(CurrentBatch)}
                         |-> Started]
          /\ allMetrics' = <<>>
          /\ calls' = Invoked(calls, {CurrentBatch[k] : k \in 1..Len(CurrentBatch)})
          /\ rpc' = "derive"
     ELSE /\ rpc' = "done"
          /\ UNCHANGED <<tasks, allMetrics, calls>>
  /\ UNCHANGED <<mode, allTickers, intlTickerSet, bi>>
  /\ UNCHANGED <<deriveVars, intlListed, data, filtered, peer, clockVars, storeVars, loadVars, historyVars>>

\* a derivation that saves the rows it returns
ReturnedSaving(coll, rows) == ApplyOps(coll, rows, Len(rows))

\* calculateHistoricalMetrics asks the provider and runs find() on the
\* statement collections, and returns; it calls nothing that writes, so the
\* PriceMetrics collection after the return is the one before it
Returned(coll, rows) == coll

\* a derivation's await this.getHistoricalPriceData(...) ends: a failed
\* request is caught there and answers []; no price data returns []
TaskFetch(t) ==
  /\ tasks[t].st = "fetch"
  /\ \E failed \in BOOLEAN :
       LET result == IF failed THEN <<>>
                     ELSE MapPriceData(ProviderRows(t, RangeFrom(mode)))
       IN /\ tasks' = [tasks EXCEPT ![t] =
                         IF Len(result) = 0
                         THEN [Resolved(<<>>, <<>>) EXCEPT !.failed = failed]
                         ELSE [Started EXCEPT !.st = "query", !.points = result]]
          /\ calls' = IF Len(result) = 0 THEN calls ELSE Queried(calls, t)
  /\ mongo' = Returned(mongo, <<>>)
  /\ AwaitedCall
  /\ UNCHANGED <<mode, allTickers, intlTickerSet, rpc, bi, allMetrics>>
  /\ UNCHANGED <<deriveVars, intlListed, data, filtered, peer, durable, staging, loadVars,
                 historyVars>>

\* a derivation's collection query ends and its loop runs to the return; a
\* failed query goes to the catch
TaskQuery(t) ==
  /\ tasks[t].st = "query"
  /\ \/ /\ tasks' = [tasks EXCEPT ![t] = CatchResult(tasks[t].points)]
        /\ mongo' = Returned(mongo, <<>>)
        /\ AwaitedCall
     \/ LET intl == t \in intlTickerSet
            recs == SortByDate(IF intl THEN IntlDocs(t) ELSE QuarterDocs(t))
            rows == LoopRows(t, intl, tasks[t].points, recs,
                             IF nowRead THEN now + 1 ELSE now,
                             Len(tasks[t].points))
        IN /\ tasks' = [tasks EXCEPT ![t] =
                          Resolved(tasks[t].points,
                                   IF Len(recs) = 0 THEN <<>> ELSE rows)]
           /\ mongo' = Returned(mongo, IF Len(recs) = 0 THEN <<>> ELSE rows)
           /\ AwaitThenRead(Len(recs) > 0 /\ Len(rows) > 0)
  /\ UNCHANGED <<mode, allTickers, intlTickerSet, rpc, bi, allMetrics>>
  /\ UNCHANGED <<deriveVars, intlListed, data, filtered, peer, calls, durable, staging,
                 loadVars, historyVars>>

\* a run that hands every batch to saveMetrics
SavesBatchAlways(rows) == TRUE

\* if (allMetrics.length > 0) await this.saveMetrics(allMetrics)
SavesBatch(rows) == Len(rows) > 0

\* await Promise.all(...) ends; the results are flattened into allMetrics and
\* a batch with rows is handed to saveMetrics
Collect ==
  /\ rpc = "derive"
  /\ AllResolved(tasks)
  /\ LET rows == Flatten(CurrentBatch, tasks, Len(CurrentBatch))
     IN IF \E t \in DOMAIN tasks : tasks[t].rejected
        THEN /\ rpc' = "failed"
             /\ UNCHANGED <<allMetrics, bi, loadVars, historyVars>>
        ELSE /\ allMetrics' = rows
             /\ IF SavesBatch(rows)
                THEN /\ CallSaveMetrics(rows)
                     /\ rpc' = "save"
                     /\ UNCHANGED bi
                ELSE /\ rpc' = "loop"
                     /\ bi' = bi + TickerBatchSize
                     /\ UNCHANGED <<loadVars, historyVars>>
  /\ UNCHANGED <<mode, allTickers, intlTickerSet, tasks>>
  /\ UNCHANGED <<deriveVars, intlListed, data, filtered, peer, calls, clockVars, storeVars>>

\* await this.saveMetrics(allMetrics) ends: an error goes to the run's catch,
\* which rethrows it; otherwise the loop goes to the next batch
AfterSave ==
  /\ rpc = "save"
  /\ SaveSettled(lpc)
  /\ IF Rethrown(outcome)
     THEN /\ rpc' = "failed"
          /\ UNCHANGED bi
     ELSE /\ rpc' = "loop"
          /\ bi' = bi + TickerBatchSize
  /\ UNCHANGED <<mode, allTickers, intlTickerSet, tasks, allMetrics>>
  /\ UNCHANGED <<deriveVars, intlListed, data, filtered, peer, calls, clockVars, storeVars, loadVars, historyVars>>

RunInit ==
  /\ isInternational = FALSE
  /\ docs = {}
  /\ eodRows = <<>>
  /\ pc = "done"
  /\ priceDataPoints = <<>>
  /\ records = <<>>
  /\ i = 1
  /\ metrics = <<>>
  /\ it = NoIteration
  /\ NoLoad
  /\ NoFilter
  /\ mode \in {"hydrate", "refresh"}
  /\ allTickers = <<>>
  /\ intlTickerSet = {}
  /\ rpc = "start"
  /\ bi = 0
  /\ tasks = <<>>
  /\ allMetrics = <<>>
  /\ calls = NoCalls
  /\ intlListed \in {SeqToSetOf(intl) : intl \in IntlTickerChoices}

RunNext ==
  \/ RunStart
  \/ StartBatch
  \/ \E t \in DOMAIN tasks : TaskFetch(t)
  \/ \E t \in DOMAIN tasks : TaskQuery(t)
  \/ Collect
  \/ AfterSave
  \/ BulkWrite
  \/ NewManager
  \/ FirstExists
  \/ CreateTable
  \/ Recheck
  \/ Wait
  \/ InsertBatch
  \/ Merge
  \/ DropTemp
  \/ Finish

SpecRun == RunInit /\ [][RunNext]_vars

---------------------------------------------------------------------------
(* FinancialsDataManager.filterNumericFields: the values of JavaScript that a
   statement row can hold, Number() and isNaN() on them, and the call *)

\* a value: its kind, the number it holds (a Date holds its time value, a
\* boolean 1 or 0), whether that number is NaN, and the characters of a string
JsValue(kind, num, nan, str) ==
  [kind |-> kind, num |-> num, nan |-> nan, str |-> str]

\* typeof value
typeof(value) ==
  IF value.kind \in {"null", "date"} THEN "object" ELSE value.kind

Digits == <<"0", "1", "2", "3", "4", "5", "6", "7", "8", "9">>

\* the string without its leading and trailing white space
RECURSIVE Trim(_)
Trim(chars) ==
  IF chars # <<>> /\ Head(chars) = " " THEN Trim(Tail(chars))
  ELSE IF chars # <<>> /\ chars[Len(chars)] = " "
  THEN Trim(SubSeq(chars, 1, Len(chars) - 1))
  ELSE chars

\* the value of a run of decimal digits
RECURSIVE DecimalValue(_)
DecimalValue(chars) ==
  IF chars = <<>> THEN 0
  ELSE 10 * DecimalValue(SubSeq(chars, 1, Len(chars) - 1))
       + (CHOOSE d \in 1..Len(Digits) : Digits[d] = chars[Len(chars)]) - 1

\* Number(string): white space is trimmed, the empty string is 0, an optional
\* sign and decimal digits are their value, and anything else is NaN
StringToNumber(chars) ==
  LET trimmed == Trim(chars)
      signed == trimmed # <<>> /\ Head(trimmed) \in {"-", "+"}
      digits == IF signed THEN Tail(trimmed) ELSE trimmed
  IN IF trimmed = <<>> THEN JsValue("number", 0, FALSE, <<>>)
     ELSE IF /\ digits # <<>>
             /\ \A k \in 1..Len(digits) :
                  \E d \in 1..Len(Digits) : Digits[d] = digits[k]
     THEN JsValue("number",
                  IF Head(trimmed) = "-"
                  THEN 0 - DecimalValue(digits) ELSE DecimalValue(digits),
                  FALSE, <<>>)
     ELSE JsValue("number", 0, TRUE, <<>>)

\* Number(value): null is 0, true is 1, a Date is its time value, and
\* undefined is NaN
Number(value) ==
  CASE value.kind = "number" -> value
    [] value.kind = "string" -> StringToNumber(value.str)
    [] value.kind \in {"boolean", "null", "date"} ->
         JsValue("number", value.num, FALSE, <<>>)
    [] value.kind = "undefined" -> JsValue("number", 0, TRUE, <<>>)

\* isNaN(number)
isNaN(number) == number.nan

\* const requiredFields = ["ticker", "symbol", "date"]
requiredFields == {"ticker", "symbol", "date"}

\* Object.entries(data).forEach(...): a required field is copied, another
\* field is set to Number(value) when typeof value === "number" or
\* !isNaN(Number(value)), and is left out otherwise
filterNumericFields(row) ==
  LET kept == {key \in DOMAIN row :
                 \/ key \in requiredFields
                 \/ typeof(row[key]) = "number"
                 \/ ~isNaN(Number(row[key]))}
  IN [key \in kept |->
        IF key \in requiredFields THEN row[key] ELSE Number(row[key])]

\* what a field of a statement row can hold: the numbers 5, 0 and NaN, null,
\* undefined, true, false, and the strings "", "12", "-3", " 7 ", "12x",
\* "NA" and "-"
FieldValues ==
  {JsValue("number", 5, FALSE, <<>>), JsValue("number", 0, FALSE, <<>>),
   JsValue("number", 0, TRUE, <<>>), JsValue("null", 0, FALSE, <<>>),
   JsValue("undefined", 0, FALSE, <<>>), JsValue("boolean", 1, FALSE, <<>>),
   JsValue("boolean", 0, FALSE, <<>>)}
  \cup {JsValue("string", 0, FALSE, chars) :
          chars \in {<<>>, <<"1", "2">>, <<"-", "3">>, <<" ", "7", " ">>,
                     <<"1", "2", "x">>, <<"N", "A">>, <<"-">>}}

\* statement rows: ticker, symbol, a date that is a Date or a string, and two
\* reported fields, each present or not
FilterInputs ==
  {[key \in {"ticker", "symbol", "date"}
           \cup (IF ni = Null THEN {} ELSE {"netIncome"})
           \cup (IF tr = Null THEN {} ELSE {"totalRevenue"}) |->
      CASE key = "ticker" -> JsValue("string", 0, FALSE, <<"A", "A", "A">>)
        [] key = "symbol" -> JsValue("string", 0, FALSE, <<"A", "A", "A">>)
        [] key = "date" -> d
        [] key = "netIncome" -> ni[1]
        [] key = "totalRevenue" -> tr[1]] :
     ni \in Optional(FieldValues), tr \in Optional(FieldValues),
     d \in {JsValue("date", 1, FALSE, <<>>),
            JsValue("string", 0, FALSE, <<"2", "0", "2", "4">>)}}

\* this.filterNumericFields(item) runs and returns
FilterNumericFields ==
  /\ filtered = Null
  /\ filtered' = Some(filterNumericFields(data))
  /\ UNCHANGED data
  /\ UNCHANGED <<deriveVars, clockVars, storeVars, loadVars, historyVars,
                 runVars, peer, calls, intlListed>>

FilterInit ==
  /\ isInternational = FALSE
  /\ docs = {}
  /\ eodRows = <<>>
  /\ pc = "done"
  /\ priceDataPoints = <<>>
  /\ records = <<>>
  /\ i = 1
  /\ metrics = <<>>
  /\ it = NoIteration
  /\ NoLoad
  /\ NoRun
  /\ data \in FilterInputs
  /\ filtered = Null

FilterNext == FilterNumericFields

SpecFilter == FilterInit /\ [][FilterNext]_vars

---------------------------------------------------------------------------
(* What the claims about a derivation speak of *)

\* the loop body has run for a price point
Iterated == it.k >= 1
\* the price point of the iteration that ran last, and its date
ItPriceData == priceDataPoints[it.k]
ItDate == ItPriceData.date
\* the row that iteration pushed (when it.emitted)
ItRow == metrics[Len(metrics)]

\* the documents of S that are dated at or before d
AtOrBefore(S, d) == {r \in S : r.date <= d}

\* the as-of record: the document of S with the largest date <= d, if any
AsOfRecord(S, d) ==
  IF AtOrBefore(S, d) = {} THEN Null
  ELSE Some(CHOOSE r \in AtOrBefore(S, d) :
              \A r2 \in AtOrBefore(S, d) : r2.date <= r.date)

\* the n most recent documents of S
MostRecent(S, n) == {r \in S : Cardinality({r2 \in S : r2.date > r.date}) < n}

\* the sum of field f over the documents of S, a missing field counting 0
RECURSIVE SetSum(_, _)
SetSum(S, f) ==
  IF S = {} THEN 0
  ELSE LET r == CHOOSE x \in S : TRUE
       IN (IF f \in DOMAIN r THEN r[f] ELSE 0) + SetSum(S \ {r}, f)

SeqToSet(s) == {s[k] : k \in 1..Len(s)}

\* C1: as-of join.  For the price date d of every loop iteration, foreign
\* (scan with break) or domestic (filter, take last), the selected record is
\* the document with the largest effective date <= d, and none is selected
\* when d precedes every document.
AsOfCorrect ==
  Iterated => it.asOf = AsOfRecord(docs, ItDate)

\* a foreign iteration selected a record that has both an earlier and a
\* later document around it
AsOfWitness ==
  /\ Iterated
  /\ isInternational
  /\ ~IsNull(it.asOf)
  /\ \E r \in docs : r.date > ItDate
  /\ \E r \in docs : r.date < Get(it.asOf).date
  /\ Get(it.asOf).date = ItDate

\* C2: no look-ahead.  For every emitted row of date d, the latest statement
\* and each summed TTM quarter are dated <= d, and the row is the row the
\* same price point yields when every statement dated after d is removed
\* from the collection.
NoLookAhead ==
  (Iterated /\ it.emitted) =>
    /\ Get(it.asOf).date <= ItDate
    /\ \A k \in 1..Len(it.ttmQuarters) : it.ttmQuarters[k].date <= ItDate
    /\ LET past == SortByDate(AtOrBefore(docs, ItDate))
       IN ItRow = IF isInternational
                  THEN ForeignRow(Ticker, ItPriceData,
                                  ClosestSharesData(past, ItDate), now)
                  ELSE DomesticRow(Ticker, ItPriceData,
                                   AvailableQuarters(past, ItDate), now)

\* a domestic row was emitted from four summed quarters while a statement
\* dated after the price date exists
NoLookAheadWitness ==
  /\ Iterated
  /\ it.emitted
  /\ ~isInternational
  /\ Len(it.ttmQuarters) = TtmWindow
  /\ \E r \in docs : r.date > ItDate

\* rows is matched, in order and one to one, by some of the price points
RECURSIVE EmbedsInOrder(_, _)
EmbedsInOrder(rows, points) ==
  IF rows = <<>> THEN TRUE
  ELSE IF points = <<>> THEN FALSE
  ELSE LET r == Head(rows)
           p == Head(points)
       IN \/ /\ r.date = p.date /\ r.price = p.price /\ r.volume = p.volume
             /\ EmbedsInOrder(Tail(rows), Tail(points))
          \/ EmbedsInOrder(rows, Tail(points))

\* C3: every row has the date of a price observation returned for the
\* security, each price observation yields at most one row, and no row has a
\* date without a price observation.
RowsFromPriceObservations ==
  /\ \A j \in 1..Len(metrics) :
       /\ metrics[j].ticker = Ticker
       /\ \E k \in 1..Len(priceDataPoints) :
            /\ metrics[j].date = priceDataPoints[k].date
            /\ metrics[j].date = standardizeToMarketClose(eodRows[k].date)
  /\ EmbedsInOrder(metrics, SubSeq(priceDataPoints, 1, i - 1))
  /\ Len(metrics) <= Len(priceDataPoints)

\* a finished derivation emitted rows for some price points and skipped others
RowsFromPriceObservationsWitness ==
  /\ pc = "done"
  /\ Len(metrics) >= 2
  /\ Len(metrics) < Len(priceDataPoints)

\* C7: TTM scaling.  For an emitted domestic row with n >= 1 statements at or
\* before d and k = min(n, 4), ttmNetIncome = (4/k) x the netIncome sum of the
\* k most recent of them, and likewise ttmRevenue; incomes 100, 120, 110 with
\* price 50 and shares 10 give 440, marketCap 500 and P/E 500/440.
TtmScaling ==
  (Iterated /\ it.emitted /\ ~isInternational) =>
    LET past == AtOrBefore(docs, ItDate)
        n == Cardinality(past)
        k == IF n < 4 THEN n ELSE 4
        recent == MostRecent(past, k)
    IN /\ n >= 1
       /\ SeqToSet(it.ttmQuarters) = recent
       /\ it.quartersAvailable = k
       /\ it.ttmNetIncome.num * k = 4 * SetSum(recent, "netIncome") * it.ttmNetIncome.den
       /\ it.ttmTotalRevenue.num * k
            = 4 * SetSum(recent, "totalRevenue") * it.ttmTotalRevenue.den
       /\ (k = 4 => it.ttmNetIncome = FracOfInt(SetSum(recent, "netIncome")))
       /\ (k = 1 => it.ttmNetIncome = FracOfInt(4 * SetSum(recent, "netIncome")))
       /\ ((/\ k = 3
            /\ {r.netIncome : r \in {x \in recent : "netIncome" \in DOMAIN x}}
                 = {100, 120, 110}
            /\ Cardinality({x \in recent : "netIncome" \in DOMAIN x}) = 3
            /\ ItPriceData.price = 50
            /\ Get(it.asOf).commonStockSharesOutstanding = 10)
           => /\ it.ttmNetIncome = FracOfInt(440)
              /\ ItRow.marketCap = 500
              /\ ItRow.peRatioTTM = Some([num |-> 25, den |-> 22]))

\* the partial-year example: three quarters with incomes 100, 120, 110 in
\* that order, price 50, shares 10
TtmScalingWitness ==
  /\ Iterated
  /\ it.emitted
  /\ ~isInternational
  /\ Len(it.ttmQuarters) = 3
  /\ \A k \in 1..3 : "netIncome" \in DOMAIN it.ttmQuarters[k]
  /\ [k \in 1..3 |-> it.ttmQuarters[k].netIncome] = <<100, 120, 110>>
  /\ ItPriceData.price = 50
  /\ it.ttmNetIncome = FracOfInt(440)

\* C8: ratio absence.  In every emitted domestic row peRatioTTM is present
\* iff ttmNetIncome > 0, psRatioTTM iff ttmRevenue > 0, and pbRatioTTM iff the
\* latest statement has totalStockholderEquity > 0; otherwise the ratio is
\* null.
RatioAbsence ==
  (Iterated /\ it.emitted /\ ~isInternational) =>
    LET recent == MostRecent(AtOrBefore(docs, ItDate), 4)
        latest == Get(AsOfRecord(docs, ItDate))
    IN /\ (~IsNull(ItRow.peRatioTTM)) <=> (SetSum(recent, "netIncome") > 0)
       /\ (~IsNull(ItRow.peRatioTTM)) <=> (it.ttmNetIncome.num > 0)
       /\ (~IsNull(ItRow.psRatioTTM)) <=> (SetSum(recent, "totalRevenue") > 0)
       /\ (~IsNull(ItRow.psRatioTTM)) <=> (it.ttmTotalRevenue.num > 0)
       /\ (~IsNull(ItRow.pbRatioTTM))
            <=> ("totalStockholderEquity" \in DOMAIN latest
                   /\ latest.totalStockholderEquity > 0)

\* a row whose trailing income is negative: P/E null beside a present P/S
RatioAbsenceWitness ==
  /\ Iterated
  /\ it.emitted
  /\ ~isInternational
  /\ it.ttmNetIncome.num < 0
  /\ IsNull(ItRow.peRatioTTM)
  /\ ~IsNull(ItRow.psRatioTTM)

\* C9: in every emitted row, domestic or foreign, marketCap is the price of
\* the row's price observation times the shares outstanding of the as-of
\* record, not of any other quarter.
MarketCapFromAsOf ==
  (Iterated /\ it.emitted) =>
    ItRow.marketCap
      = ItPriceData.price
          * Get(AsOfRecord(docs, ItDate)).commonStockSharesOutstanding

\* a domestic row over two summed quarters whose share counts differ
MarketCapFromAsOfWitness ==
  /\ Iterated
  /\ it.emitted
  /\ ~isInternational
  /\ Len(it.ttmQuarters) >= 2
  /\ \E k \in 1..Len(it.ttmQuarters) :
       /\ "commonStockSharesOutstanding" \in DOMAIN it.ttmQuarters[k]
       /\ it.ttmQuarters[k].commonStockSharesOutstanding
            # Get(it.asOf).commonStockSharesOutstanding

DebtAndCashFields ==
  {"longTermDebt", "shortTermDebt", "shortLongTermDebt",
   "cashAndShortTermInvestments", "cash"}

\* the value of field f of document r, 0 when r lacks it
FieldOrZero(r, f) == IF f \in DOMAIN r THEN r[f] ELSE 0

\* C10: enterprise value.  For a domestic row it is present iff at least one
\* of the five debt and cash fields is present on the as-of statement; then it
\* is marketCap + total debt - cash, an absent field counting 0 (cash being
\* cashAndShortTermInvestments, or the cash field when that is absent or 0);
\* with none of the five present it is null, not marketCap.
EnterpriseValueRule ==
  (Iterated /\ it.emitted /\ ~isInternational) =>
    LET latest == Get(AsOfRecord(docs, ItDate))
        debt == FieldOrZero(latest, "longTermDebt")
                  + FieldOrZero(latest, "shortTermDebt")
                  + FieldOrZero(latest, "shortLongTermDebt")
        cash == IF FieldOrZero(latest, "cashAndShortTermInvestments") # 0
                THEN latest.cashAndShortTermInvestments
                ELSE FieldOrZero(latest, "cash")
    IN IF DebtAndCashFields \cap DOMAIN latest # {}
       THEN ItRow.enterpriseValue = Some(ItRow.marketCap + debt - cash)
       ELSE IsNull(ItRow.enterpriseValue)

\* a row whose as-of statement has the cash field and no debt field
EnterpriseValueWitness ==
  /\ Iterated
  /\ it.emitted
  /\ ~isInternational
  /\ DebtAndCashFields \cap DOMAIN Get(it.asOf) = {"cash"}
  /\ Get(it.asOf).cash = 16
  /\ ItRow.enterpriseValue = Some(ItRow.marketCap - 16)

---------------------------------------------------------------------------
(* What the claims about a load speak of *)

\* a call of saveMetrics has returned normally
LoadCompleted == lpc = "idle" /\ outcome = "ok" /\ Len(batch) > 0

\* the call before this one was given the same batch
SameBatchAgain == loads >= 2 /\ prevBatch = batch

\* a staging table that still holds rows
LeftOver == {t \in DOMAIN staging : Len(staging[t].rows) > 0}

\* C4: after any sequence of loads, re-runs and retries of a batch included,
\* the durable table holds at most one row per (ticker, date).
OneRowPerKey ==
  \A j, k \in 1..Len(durable.rows) :
    SameKey(durable.rows[j], durable.rows[k]) => j = k

\* a key loaded by two loads with different values: the durable table holds
\* it once, with the values of the later load, next to the other keys
OneRowPerKeyWitness ==
  /\ LoadCompleted
  /\ loads >= 2
  /\ batch = <<RowA1Again, RowA2>>
  /\ Len(snap) = 3
  /\ Len(durable.rows) = 3
  /\ \E j \in 1..Len(durable.rows) : durable.rows[j] = StageRow(RowA1Again)

\* C5: merge idempotence.  When a load of a batch completes and the load
\* before it completed with the same batch, the durable table has the keys
\* and the values in every column that it had after the first of the two.
MergeIdempotent ==
  (LoadCompleted /\ SameBatchAgain /\ prevOutcome = "ok") =>
    /\ Len(durable.rows) = Len(snap)
    /\ SeqToSet(durable.rows) = SeqToSet(snap)

\* the same batch loaded twice onto a table that held other rows before
MergeIdempotentWitness ==
  /\ LoadCompleted
  /\ SameBatchAgain
  /\ prevOutcome = "ok"
  /\ loads = 3
  /\ batch = <<RowA1Again, RowA2>>
  /\ Len(snap) = 3

\* C6: crash and retry safety.  When a load of a batch completes after one
\* or more interrupted attempts of the same batch (thrown or crashed at any
\* step), the durable table is the table that one uninterrupted load of the
\* batch produces from the table found by the first attempt; nothing is done
\* about the interrupted attempts.
RetrySafe ==
  (LoadCompleted /\ SameBatchAgain /\ prevOutcome \in {"error", "crashed"}) =>
    durable.rows = MergeRows(base, StageRows(batch))

\* a load of rows onto a table that held rows, crashed after its staging
\* insert and then run again to completion: every load left its staging
\* table behind
RetrySafeWitness ==
  /\ LoadCompleted
  /\ SameBatchAgain
  /\ prevOutcome = "crashed"
  /\ loads = 3
  /\ Len(base) > 0
  /\ durable.rows # base
  /\ Cardinality(LeftOver) = 3

---------------------------------------------------------------------------
(* What the claims about a run speak of *)

\* every row the run holds or has stored
RowsAnywhere ==
  UNION {SeqToSet(tasks[t].rows) : t \in DOMAIN tasks}
    \cup SeqToSet(allMetrics) \cup SeqToSet(batch) \cup mongo
    \cup UNION {SeqToSet(staging[t].rows) : t \in DOMAIN staging}
    \cup SeqToSet(durable.rows)

\* the derivations of the current batch that have not returned
InFlight == {t \in DOMAIN tasks : tasks[t].st # "done"}

\* the rows the derivation of ticker t yields from what the provider and the
\* collections hold, when it reads the clock at stamp
DerivedRows(t, stamp) ==
  LET points == MapPriceData(ProviderRows(t, RangeFrom(mode)))
      intl == t \in intlTickerSet
      recs == SortByDate(IF intl THEN IntlDocs(t) ELSE QuarterDocs(t))
  IN IF Len(points) = 0 \/ Len(recs) = 0 THEN <<>>
     ELSE LoopRows(t, intl, points, recs, stamp, Len(points))

\* the rows of the derivations of a batch that did not fail, in batch order
RECURSIVE RowsOfSucceeded(_, _)
RowsOfSucceeded(tickers, n) ==
  IF n = 0 THEN <<>>
  ELSE RowsOfSucceeded(tickers, n - 1)
         \o (IF tasks[tickers[n]].failed THEN <<>> ELSE tasks[tickers[n]].rows)

\* C11: every row with isInternational = true, as returned by a derivation,
\* as handed to a load, and as stored in the operational store, a staging
\* table or the durable table after any merges, has peRatioTTM, psRatioTTM,
\* pbRatioTTM and enterpriseValue all null.
ForeignRowsBare ==
  \A r \in RowsAnywhere :
    r.isInternational =>
      /\ IsNull(r.peRatioTTM)
      /\ IsNull(r.psRatioTTM)
      /\ IsNull(r.pbRatioTTM)
      /\ IsNull(r.enterpriseValue)

\* the durable table holds a row of a ticker found in both collections,
\* derived as foreign, next to a domestic row that carries ratios
ForeignRowsBareWitness ==
  /\ \E r \in SeqToSet(durable.rows) :
       r.ticker = "DDD" /\ r.isInternational /\ r.marketCap > 0
  /\ \E r \in SeqToSet(durable.rows) :
       ~r.isInternational /\ ~IsNull(r.peRatioTTM) /\ ~IsNull(r.enterpriseValue)

\* C12: batch isolation.  When the derivations of a batch have all returned,
\* some of them failed, the run does not fail: a failed one has no rows, each
\* other has the rows its own data yield, and a load is started with exactly
\* the rows of those that succeeded, in batch order (with none, no load).
BatchIsolation ==
  [][(rpc = "derive" /\ rpc' # "derive") =>
       /\ rpc' # "failed"
       /\ \A t \in DOMAIN tasks :
            IF tasks[t].failed THEN tasks[t].rows = <<>>
            ELSE \E stamp \in 0..now : tasks[t].rows = DerivedRows(t, stamp)
       /\ LET rows == RowsOfSucceeded(CurrentBatch, Len(CurrentBatch))
          IN IF Len(rows) > 0
             THEN rpc' = "save" /\ lpc' = "bulkWrite" /\ batch' = rows
                  /\ loads' = loads + 1
             ELSE rpc' = "loop" /\ loads' = loads]_vars

\* a load runs with the rows of one security while the derivation of the
\* other security of the batch, which has rows to give, failed
BatchIsolationWitness ==
  /\ rpc = "save"
  /\ lpc = "bulkWrite"
  /\ Len(batch) > 0
  /\ \E t \in DOMAIN tasks :
       /\ tasks[t].failed
       /\ DerivedRows(t, 0) # <<>>
       /\ \A k \in 1..Len(batch) : batch[k].ticker # t

\* C13: batch ordering.  A load runs only when every derivation of its batch
\* has returned, its rows being that batch's; a derivation is in flight only
\* when no load runs; and when the loop goes on to the next batch the rows of
\* the batch before have been loaded.
BatchOrdering ==
  /\ lpc # "idle" =>
       /\ rpc = "save"
       /\ InFlight = {}
       /\ DOMAIN tasks = SeqToSet(CurrentBatch)
       /\ batch = allMetrics
  /\ InFlight # {} => (lpc = "idle" /\ rpc = "derive")
  /\ (rpc \in {"loop", "derive", "done"} /\ Len(allMetrics) > 0) =>
       (batch = allMetrics /\ lpc = "idle" /\ outcome = "ok")

\* the derivations of the second batch are in flight after the load of the
\* first batch has merged its rows
BatchOrderingWitness ==
  /\ rpc = "derive"
  /\ bi > 0
  /\ InFlight # {}
  /\ loads = 1
  /\ outcome = "ok"
  /\ Len(durable.rows) > 0

\* C14: at every moment at most TickerBatchSize derivations are in flight,
\* they all belong to the current batch, and the rows held for loading are
\* rows of the tickers of one batch.
BoundedInFlight ==
  /\ Cardinality(InFlight) <= TickerBatchSize
  /\ Cardinality(DOMAIN tasks) <= TickerBatchSize
  /\ InFlight \subseteq SeqToSet(CurrentBatch)
  /\ {r.ticker : r \in SeqToSet(allMetrics)} \subseteq DOMAIN tasks
  /\ lpc # "idle" => {r.ticker : r \in SeqToSet(batch)} \subseteq DOMAIN tasks

\* a full second batch in flight
BoundedInFlightWitness ==
  /\ bi > 0
  /\ Cardinality(InFlight) = TickerBatchSize
  /\ Len(allTickers) > bi + TickerBatchSize

\* C15: when the load of a batch fails the run fails with that error: the
\* failed batch is the last one derived and loaded, nothing happens after,
\* and every row the durable table held when that load started (the rows
\* merged by the batches before) is still there unchanged.
LoadFailureAborts ==
  /\ [](/\ (lpc = "idle" /\ outcome = "error") => rpc \in {"save", "failed"}
        /\ (rpc = "failed" /\ outcome = "error") =>
             /\ lpc = "idle"
             /\ InFlight = {}
             /\ DOMAIN tasks = SeqToSet(CurrentBatch)
             /\ batch = allMetrics
             /\ SeqToSet(snap) \subseteq SeqToSet(durable.rows))
  /\ [][rpc = "failed" => UNCHANGED <<runVars, loadVars, storeVars>>]_vars

\* the load of the second of three batches failed after its merge took
\* effect: the run has failed, the first batch's rows are in the table
LoadFailureAbortsWitness ==
  /\ rpc = "failed"
  /\ outcome = "error"
  /\ bi > 0
  /\ bi + TickerBatchSize < Len(allTickers)
  /\ Len(snap) > 0
  /\ Len(durable.rows) > Len(snap)

---------------------------------------------------------------------------
(* What the claims about the steps of a load speak of *)

\* the rows of this load's staging table
StagedRows ==
  IF mgr.tempTable \in DOMAIN staging THEN staging[mgr.tempTable].rows ELSE <<>>

\* the merge statement of this load has run and answered
Merged == lpc = "drop" /\ ~mgr.mergeFailed

\* C16: merge semantics.  After the merge, for each staging row: if the
\* table held a row of the same (ticker, date), that durable row now equals
\* the staging row in every column other than the key, symbol included;
\* otherwise the table holds a row equal to the staging row.
MergeOverwritesAll ==
  Merged =>
    \A k \in 1..Len(StagedRows) :
      LET src == StagedRows[k]
      IN \E j \in 1..Len(durable.rows) :
           /\ SameKey(durable.rows[j], src)
           /\ durable.rows[j] = src

\* C17: once the merge statement of a load has run, failed or not, the drop
\* of the load's staging table comes next, and the call ends only after the
\* drop has been tried; when the drop has succeeded the staging table is
\* gone.  (A process that dies does nothing more.)
DropAlwaysAttempted ==
  /\ [][(lpc = "merge" /\ outcome' # "crashed") => lpc' = "drop"]_vars
  /\ [][(lpc = "drop" /\ outcome' # "crashed") => lpc' = "finish"]_vars
  /\ [](lpc = "finish" /\ ~mgr.dropFailed => mgr.tempTable \notin DOMAIN staging)

\* the merge of a load onto a table with rows failed, and the staging table
\* has been dropped
DropAlwaysAttemptedWitness ==
  /\ lpc = "finish"
  /\ mgr.mergeFailed
  /\ ~mgr.dropFailed
  /\ mgr.tempTable \notin DOMAIN staging
  /\ durable.rows = snap
  /\ Len(snap) > 0

\* C18: a failed drop does not change what the load reports: the call ends
\* with the merge's error when the merge failed and without error otherwise,
\* the drop having failed or not, and the end of the call leaves the durable
\* table as the merge left it.
DropFailureSwallowed ==
  [][(lpc = "finish" /\ lpc' = "idle" /\ outcome' # "crashed") =>
       /\ outcome' = IF mgr.mergeFailed THEN "error" ELSE "ok"
       /\ durable' = durable
       /\ (~mgr.mergeFailed =>
             durable.rows = MergeRows(snap, StageRows(batch)))]_vars

\* the first load completed without error, its rows are in the durable
\* table, and its staging table is still there: the drop failed
DropFailureSwallowedWitness ==
  /\ lpc = "idle"
  /\ outcome = "ok"
  /\ loads = 1
  /\ Len(batch) > 0
  /\ Len(durable.rows) = Len(batch)
  /\ Cardinality(LeftOver) = 1

\* C19: the rows of the durable table change only in the step of the merge
\* statement: the existence checks, the creation of a table, the staging
\* inserts, the drop and the end of a call, thrown or crashed, leave them as
\* they were.
OnlyMergeWrites ==
  [][durable.rows' # durable.rows => (lpc = "merge" /\ lpc' # "idle")]_vars

\* a load has staged all its rows and is about to merge: the durable table
\* still holds the rows it held when the load started
OnlyMergeWritesWitness ==
  /\ lpc = "merge"
  /\ Len(StagedRows) = Len(batch)
  /\ Len(snap) > 0
  /\ durable.rows = snap
  /\ MergeRows(snap, StagedRows) # snap

\* C20: table ensure step.  When the load goes on to its staging inserts and
\* its merge, createPriceMetricsTable having returned normally, the durable
\* table and the staging table exist and an existence check has seen each.
EnsureSurfacesFailure ==
  lpc \in {"insert", "merge"} =>
    /\ TableCreated("main") /\ TableVisible("main")
    /\ TableCreated("temp") /\ TableVisible("temp")

---------------------------------------------------------------------------
(* What the claims about overlapping loads speak of *)

\* both calls hold a PriceMetricsDataManager
BothManaged == mgr.tempTable # -1 /\ peer.mgr.tempTable # -1

\* C21: staging tables are uniquely named.  Two saveMetrics calls in
\* progress at the same time, each holding a PriceMetricsDataManager, hold
\* different staging table names, so that neither merges rows staged by the
\* other nor drops the other's staging table.
UniqueStagingNames == BothManaged => mgr.tempTable # peer.mgr.tempTable

---------------------------------------------------------------------------
(* What the claims about missing data speak of *)

\* the rows of the result dated d
RowsDated(d) == {k \in 1..Len(metrics) : metrics[k].date = d}

\* the last of the sorted records dated at or before d
LastAtOrBefore(d) ==
  records[CHOOSE k \in 1..Len(records) :
            /\ records[k].date <= d
            /\ \A j \in (k + 1)..Len(records) : records[j].date > d]

\* C22: no-data conditions are not errors.  A derivation that found no
\* price observations, or no statements or shares-outstanding records, has
\* returned an empty list; and in a finished derivation a price date before
\* the first record has no row, while a price date from the first record on
\* whose as-of record carries shares outstanding has one.
NoDataNotError ==
  /\ (pc \notin {"start", "query"}
        /\ (Len(priceDataPoints) = 0 \/ Len(records) = 0)) =>
       (pc = "done" /\ metrics = <<>>)
  /\ (pc = "done" /\ Len(records) > 0) =>
       \A k \in 1..Len(priceDataPoints) :
         LET d == priceDataPoints[k].date
         IN /\ d < records[1].date => RowsDated(d) = {}
            /\ (d >= records[1].date
                  /\ Truthy(LastAtOrBefore(d), "commonStockSharesOutstanding"))
                 => RowsDated(d) # {}

\* a domestic security whose first price date precedes its first statement
\* and whose later price dates gave rows
NoDataNotErrorWitness ==
  /\ pc = "done"
  /\ ~isInternational
  /\ Len(records) > 0
  /\ Len(priceDataPoints) >= 2
  /\ priceDataPoints[1].date < records[1].date
  /\ RowsDated(priceDataPoints[1].date) = {}
  /\ Len(metrics) = Len(priceDataPoints) - 1

---------------------------------------------------------------------------
(* What the claims about the two stores speak of *)

\* C23: mirroring.  When a saveMetrics call for a batch of rows has returned
\* normally, the operational store and the durable table each hold, for every
\* row of the batch, a row of that (ticker, date) with the values of the
\* batch row; and the operational store never holds two rows of one
\* (ticker, date).
Mirroring ==
  /\ LoadCompleted =>
       \A k \in 1..Len(batch) :
         /\ batch[k] \in mongo
         /\ \E j \in 1..Len(durable.rows) : durable.rows[j] = batch[k]
  /\ \A r, m \in mongo : SameKey(r, m) => r = m

\* a completed load of a batch one of whose keys both stores held already,
\* with other values
MirroringWitness ==
  /\ LoadCompleted
  /\ batch = <<RowA1Again, RowA2>>
  /\ \E j \in 1..Len(snap) : snap[j] = RowA1
  /\ RowA1Again \in mongo
  /\ RowA1 \notin mongo
  /\ \E j \in 1..Len(durable.rows) : durable.rows[j] = RowA1Again

---------------------------------------------------------------------------
(* What the claims about missing statement fields speak of *)

\* the statements of the TTM window that carry the field f
Carrying(f) == {k \in 1..Len(it.ttmQuarters) : f \in DOMAIN it.ttmQuarters[k]}

\* the sum of the field f over the statements of K
RECURSIVE SumCarried(_, _)
SumCarried(K, f) ==
  IF K = {} THEN 0
  ELSE LET k == CHOOSE x \in K : TRUE
       IN it.ttmQuarters[k][f] + SumCarried(K \ {k}, f)

\* C24: a statement without netIncome (or totalRevenue) adds 0 to the TTM sum
\* and still counts as a quarter.  For an emitted domestic row whose window
\* takes n statements (n = min(4, statements at or before the price date)),
\* ttmNetIncome = (4/n) x the sum of the netIncome values present, however
\* many of the n statements carry the field; likewise ttmTotalRevenue.
MissingFieldCounts ==
  (Iterated /\ it.emitted /\ ~isInternational) =>
    LET past == Cardinality(AtOrBefore(docs, ItDate))
        n == Len(it.ttmQuarters)
    IN /\ n = (IF past < 4 THEN past ELSE 4)
       /\ it.quartersAvailable = n
       /\ it.ttmNetIncome.num * n
            = 4 * SumCarried(Carrying("netIncome"), "netIncome")
                * it.ttmNetIncome.den
       /\ it.ttmTotalRevenue.num * n
            = 4 * SumCarried(Carrying("totalRevenue"), "totalRevenue")
                * it.ttmTotalRevenue.den

\* three statements of which the second has no netIncome: 100 and 120 over
\* three quarters give 4/3 x 220
MissingFieldCountsWitness ==
  /\ Iterated
  /\ it.emitted
  /\ ~isInternational
  /\ Len(it.ttmQuarters) = 3
  /\ Carrying("netIncome") = {1, 3}
  /\ it.ttmQuarters[1].netIncome = 100
  /\ it.ttmQuarters[3].netIncome = 120
  /\ it.ttmNetIncome = [num |-> 880, den |-> 3]

---------------------------------------------------------------------------
(* What the claims about createTable speak of *)

---------------------------------------------------------------------------
(* What the claims about retries speak of *)

\* the staging table of the load holds the first mgr.inserted rows of the
\* batch, each once
StagedOnce ==
  mgr.tempTable \in DOMAIN staging =>
    staging[mgr.tempTable].rows = SubSeq(StageRows(batch), 1, mgr.inserted)

\* C26: only table-existence checks are retried.  Within one load every
\* staging sub-batch is inserted by one insert call and the merge statement
\* is issued at most once; in one run the prices of a ticker are requested at
\* most once and its documents queried at most once; a failed insert ends
\* saveMetrics at once, a failed merge is followed only by the drop, and the
\* run that awaits the failed load fails in turn.
OnlyExistenceRetried ==
  /\ [](/\ mgr.merges <= 1
        /\ mgr.inserts * InsertBatchSize < mgr.inserted + InsertBatchSize
        /\ mgr.inserted <= mgr.inserts * InsertBatchSize
        /\ StagedOnce
        /\ \A t \in Tickers : calls.fetch[t] <= 1 /\ calls.query[t] <= 1)
  /\ [][(lpc = "insert" /\ outcome' = "error") => lpc' = "idle"]_vars
  /\ [][mgr.mergeFailed => lpc' \in {"finish", "idle"}]_vars
  /\ [][(rpc = "save" /\ lpc = "idle" /\ outcome = "error") =>
          rpc' = "failed"]_vars

\* a load of the rows of two derivations, staged by two inserts, whose merge
\* failed: the drop has run and nothing was issued again
OnlyExistenceRetriedWitness ==
  /\ rpc = "save"
  /\ lpc = "finish"
  /\ mgr.mergeFailed
  /\ mgr.inserts = 2
  /\ mgr.merges = 1
  /\ Cardinality({t \in Tickers : calls.query[t] = 1}) >= 2

---------------------------------------------------------------------------
(* What the claims about the staging insert speak of *)

\* the rows an insert step adds to the staging table of the load
Added ==
  Len(staging'[mgr.tempTable].rows) - Len(staging[mgr.tempTable].rows)

\* C27: the staging insert covers the batch exactly.  For a batch of n >= 1
\* rows insertPriceMetricsToTempTable issues ceil(n / size) inserts, each of
\* at least one and at most size rows and all but the last of exactly size
\* rows, and when all have succeeded the staging table holds the rows of the
\* batch, each once, in batch order; for an empty batch it issues no insert
\* (size stands for the 500 of the code).
InsertCoversBatch ==
  /\ [](lpc = "merge" =>
          /\ StagedRows = batch
          /\ mgr.inserts * InsertBatchSize < Len(batch) + InsertBatchSize
          /\ Len(batch) <= mgr.inserts * InsertBatchSize)
  /\ [][(lpc = "insert" /\ lpc' \in {"insert", "merge"} /\ Len(batch) > 0) =>
          /\ mgr'.inserts = mgr.inserts + 1
          /\ Added >= 1
          /\ Added <= InsertBatchSize
          /\ (lpc' = "insert" => Added = InsertBatchSize)]_vars
  /\ [][(lpc = "insert" /\ Len(batch) = 0) =>
          (lpc' = "merge" /\ UNCHANGED <<staging, mgr>>)]_vars

\* three rows staged by a full insert and a last, shorter one
InsertCoversBatchWitness ==
  /\ lpc = "merge"
  /\ Len(batch) = InsertBatchSize + 1
  /\ mgr.inserts = 2
  /\ StagedRows = batch

---------------------------------------------------------------------------
(* What the claims about the two modes speak of *)

\* the rows a full hydration derives for ticker t from the same provider
\* rows and collections: t is international when the InternationalStock
\* collection holds documents of it
HydrationRows(t) ==
  LET points == MapPriceData(ProviderRows(t, RangeFrom("hydrate")))
      intl == t \in intlListed
      recs == SortByDate(IF intl THEN IntlDocs(t) ELSE QuarterDocs(t))
  IN IF Len(points) = 0 \/ Len(recs) = 0 THEN <<>>
     ELSE LoopRows(t, intl, points, recs, 0, Len(points))

\* a row without its lastUpdated
Unstamped(row) == [row EXCEPT !.lastUpdated = 0]

\* C28: full hydration and incremental refresh derive the same rows.  For
\* every ticker a refresh has derived and every price date of its range, the
\* refresh has a row of that date exactly when a hydration has one, and the
\* two rows are equal apart from lastUpdated: the same isInternational and
\* the same ratio fields.
ModesDeriveSameRows ==
  mode = "refresh" =>
    \A t \in DOMAIN tasks :
      (tasks[t].st = "done" /\ ~tasks[t].failed) =>
        LET mine == {Unstamped(tasks[t].rows[k]) : k \in 1..Len(tasks[t].rows)}
            dates == {tasks[t].points[k].date : k \in 1..Len(tasks[t].points)}
            full == {Unstamped(HydrationRows(t)[k]) :
                       k \in 1..Len(HydrationRows(t))}
        IN mine = {row \in full : row.date \in dates}

---------------------------------------------------------------------------
(* What the claims about the universe of a run speak of *)

\* the number of tickers of the universe and of batches it is split into
UniverseSize == Len(allTickers)
BatchCount == (UniverseSize + TickerBatchSize - 1) \div TickerBatchSize

\* the tickers at the positions bi + 1 .. bi + TickerBatchSize of the universe
SliceAtBi ==
  {allTickers[k] : k \in {j \in 1..UniverseSize :
                            j > bi /\ j <= bi + TickerBatchSize}}

\* a run whose awaited calls all end
SpecRunFair == RunInit /\ [][RunNext]_vars /\ WF_vars(RunNext)

\* C29: universe partition and termination.  The universe of a run is the
\* de-duplicated union of the domestic and foreign tickers; the batch in
\* progress is the next TickerBatchSize tickers of it (fewer at the end, never
\* none); no derivation is invoked twice for a ticker; a run that has ended
\* without a failure has run ceil(n / TickerBatchSize) batches and invoked the
\* derivation once for each ticker of the universe and for no other; and
\* every run ends (TickerBatchSize stands for the 10 of the code).
UniversePartition ==
  /\ [](/\ \A j, k \in 1..UniverseSize : allTickers[j] = allTickers[k] => j = k
        /\ intlTickerSet \subseteq {allTickers[k] : k \in 1..UniverseSize}
        /\ bi % TickerBatchSize = 0
        /\ bi <= BatchCount * TickerBatchSize
        /\ (rpc \in {"derive", "save"} =>
              /\ DOMAIN tasks = SliceAtBi
              /\ Cardinality(DOMAIN tasks) \in 1..TickerBatchSize)
        /\ \A t \in Tickers : calls.derive[t] <= 1
        /\ (rpc = "done" =>
              /\ bi = BatchCount * TickerBatchSize
              /\ \A t \in Tickers :
                   calls.derive[t] =
                     (IF \E k \in 1..UniverseSize : allTickers[k] = t
                      THEN 1 ELSE 0)))
  /\ <>(rpc \in {"done", "failed"})

\* a hydration of five tickers, one of them in both collections, ended after
\* three batches
UniversePartitionWitness ==
  /\ rpc = "done"
  /\ mode = "hydrate"
  /\ UniverseSize = 5
  /\ bi = 3 * TickerBatchSize
  /\ "DDD" \in intlTickerSet
  /\ \A t \in Tickers : calls.derive[t] = 1

---------------------------------------------------------------------------
(* What the claims about sibling derivations speak of *)

\* the derivations whose record a step changes
Written == {t \in DOMAIN tasks : t \notin DOMAIN tasks' \/ tasks'[t] # tasks[t]}

\* the position of a ticker in the universe
Position(t) == CHOOSE k \in 1..Len(allTickers) : allTickers[k] = t

\* C30: single-writer barrier.  While the derivations of a batch run the
\* combined list stays empty and every step writes the result of one
\* derivation only; the combined list is built when all of them have
\* returned; and it then holds, for each ticker of the batch, that
\* derivation's rows in their order, the tickers following one another in
\* batch order, whatever the order in which the derivations returned.
SingleWriterBarrier ==
  /\ [](rpc = "derive" => allMetrics = <<>>)
  /\ [][(rpc = "derive" /\ rpc' = "derive") =>
          (allMetrics' = allMetrics /\ Cardinality(Written) <= 1)]_vars
  /\ [][(allMetrics' # allMetrics /\ allMetrics' # <<>>) =>
          /\ InFlight = {}
          /\ tasks' = tasks
          /\ \A t \in DOMAIN tasks :
               SelectSeq(allMetrics', LAMBDA row : row.ticker = t)
                 = tasks[t].rows
          /\ \A k \in 1..Len(allMetrics') :
               allMetrics'[k].ticker \in DOMAIN tasks
          /\ \A j, k \in 1..Len(allMetrics') :
               j < k => Position(allMetrics'[j].ticker)
                          <= Position(allMetrics'[k].ticker)]_vars

\* the combined list of a batch whose second derivation returned before its
\* first: the rows of the first ticker come first all the same
SingleWriterBarrierWitness ==
  /\ rpc = "save"
  /\ Len(CurrentBatch) = 2
  /\ Len(allMetrics) >= 2
  /\ allMetrics[1].ticker = CurrentBatch[1]
  /\ allMetrics[Len(allMetrics)].ticker = CurrentBatch[2]
  /\ allMetrics[Len(allMetrics)].lastUpdated < allMetrics[1].lastUpdated

---------------------------------------------------------------------------
(* What the claims about the order of the rows speak of *)

\* the position of the price observation a row was computed from
PriceIndex(row) ==
  CHOOSE k \in 1..Len(priceDataPoints) : priceDataPoints[k].date = row.date

PriceAscending ==
  \A k \in 1..(Len(priceDataPoints) - 1) :
    priceDataPoints[k].date < priceDataPoints[k + 1].date

\* C31: the rows of one derivation are in the order of the price observations
\* they come from; with the price observations in ascending date order the
\* rows are in strictly ascending date order, and the dates between two
\* neighbouring rows are the skipped price dates.
RowsInPriceOrder ==
  /\ \A j \in 1..(Len(metrics) - 1) :
       PriceIndex(metrics[j]) < PriceIndex(metrics[j + 1])
  /\ PriceAscending =>
       \A j \in 1..(Len(metrics) - 1) : metrics[j].date < metrics[j + 1].date
  /\ \A j \in 1..Len(metrics) : PriceIndex(metrics[j]) < i

\* a finished derivation of three price dates that skipped the middle one
RowsInPriceOrderWitness ==
  /\ pc = "done"
  /\ Len(priceDataPoints) = 3
  /\ Len(metrics) = 2
  /\ metrics[1].date = priceDataPoints[1].date
  /\ metrics[2].date = priceDataPoints[3].date

---------------------------------------------------------------------------
(* What the claims about the stores during a derivation speak of *)

\* a step of one derivation: the task of ticker t goes on or returns
DerivationStep(t) ==
  /\ t \in DOMAIN tasks
  /\ t \in DOMAIN tasks'
  /\ tasks[t].st # "done"
  /\ tasks'[t] # tasks[t]

\* C32: a derivation writes to no store.  Every step of a derivation, whether
\* it ends with rows, with an empty list, or in the catch after an internal
\* failure, leaves the operational collection, the durable table and every
\* staging table as they were.
DerivationWritesNothing ==
  [][\A t \in Tickers : DerivationStep(t) => UNCHANGED storeVars]_vars

\* the second batch's derivations ran with the first batch's rows in both
\* stores: one returned rows, one failed internally and returned nothing
DerivationWritesNothingWitness ==
  /\ rpc = "derive"
  /\ bi > 0
  /\ mongo # {}
  /\ durable.rows # <<>>
  /\ \E t \in DOMAIN tasks :
       tasks[t].st = "done" /\ tasks[t].rows # <<>>
  /\ \E t \in DOMAIN tasks :
       tasks[t].st = "done" /\ tasks[t].failed /\ tasks[t].rows = <<>>

---------------------------------------------------------------------------
(* What the claims about numeric filtering speak of *)

\* a value that has a numeric value
IsNumeric(value) == ~isNaN(Number(value))

\* C33: filterNumericFields keeps ticker, symbol and date unchanged, every
\* other field of its output is a number that is not NaN and equals the
\* numeric value of the input field, and a field whose value is not numeric
\* is dropped from the row.
NumericFilterClean ==
  filtered # Null =>
    LET out == filtered[1]
    IN /\ \A key \in requiredFields :
            key \in DOMAIN out /\ out[key] = data[key]
       /\ \A key \in DOMAIN out \ requiredFields :
            /\ key \in DOMAIN data
            /\ out[key].kind = "number"
            /\ ~out[key].nan
            /\ out[key] = Number(data[key])
       /\ \A key \in DOMAIN data \ requiredFields :
            ~IsNumeric(data[key]) => key \notin DOMAIN out

---------------------------------------------------------------------------
(* What the claims about the shares gate speak of *)

\* the record carries a shares count that is present and not zero
UsableShares(record) ==
  /\ record # Null
  /\ "commonStockSharesOutstanding" \in DOMAIN record[1]
  /\ record[1].commonStockSharesOutstanding # 0

\* the price points the loop has gone through
Processed == IF pc \in {"loop", "done"} THEN 1..(i - 1) ELSE {}

\* C34: a row is emitted for a price date iff the as-of record for that date
\* exists and its commonStockSharesOutstanding is present and non-zero; a date
\* whose as-of record has missing or zero shares is skipped even when an
\* earlier record has a usable figure, so every emitted row has a market
\* capitalisation computed from a present, non-zero shares count.
SharesGate ==
  /\ \A k \in Processed :
       (\E j \in 1..Len(metrics) : metrics[j].date = priceDataPoints[k].date)
         <=> UsableShares(AsOfRecord(docs, priceDataPoints[k].date))
  /\ \A j \in 1..Len(metrics) :
       LET record == AsOfRecord(docs, metrics[j].date)
       IN /\ UsableShares(record)
          /\ metrics[j].marketCap
               = metrics[j].price * record[1].commonStockSharesOutstanding

\* a finished derivation that emitted a row for one date and skipped a later
\* date whose as-of record has zero or missing shares although an earlier
\* record has a usable count
SharesGateWitness ==
  /\ pc = "done"
  /\ Len(metrics) >= 1
  /\ \E k \in Processed :
       LET d == priceDataPoints[k].date
       IN /\ ~\E j \in 1..Len(metrics) : metrics[j].date = d
          /\ AsOfRecord(docs, d) # Null
          /\ ~UsableShares(AsOfRecord(docs, d))
          /\ \E r \in docs :
               /\ r.date < AsOfRecord(docs, d)[1].date
               /\ UsableShares(Some(r))
          /\ \E j \in 1..Len(metrics) : metrics[j].date < d

---------------------------------------------------------------------------
(* What the claims about the frame of a merge speak of *)

\* the (ticker, date) pairs of the rows of a table
KeysOf(rows) == {<<rows[k].ticker, rows[k].date>> : k \in 1..Len(rows)}

\* the step is the MERGE statement of the load in progress
MergeStep == lpc = "merge" /\ lpc' # "merge"

\* C35: merge frame.  A merge leaves every durable row whose (ticker, date)
\* is not in the staging table as it is and deletes no durable row: each
\* row is still there under its key; and the durable keys after a merge that
\* took effect are the keys before it together with the staging keys.
MergeFrame ==
  [][MergeStep =>
       LET before == durable.rows
           after == durable'.rows
           staged == staging[mgr.tempTable].rows
       IN /\ Len(after) >= Len(before)
          /\ \A j \in 1..Len(before) :
               /\ <<after[j].ticker, after[j].date>>
                    = <<before[j].ticker, before[j].date>>
               /\ <<before[j].ticker, before[j].date>> \notin KeysOf(staged)
                    => after[j] = before[j]
          /\ \/ after = before
             \/ KeysOf(after) = KeysOf(before) \cup KeysOf(staged)
          /\ ~mgr'.mergeFailed
               => KeysOf(after) = KeysOf(before) \cup KeysOf(staged)]_vars

\* a merge has gone through on a main table that held a key the staging
\* table did not have, a key both had, and lacked a key the staging table had
MergeFrameWitness ==
  /\ lpc = "drop"
  /\ ~mgr.mergeFailed
  /\ 0 \in DOMAIN staging
  /\ KeysOf(snap) \ KeysOf(staging[0].rows) # {}
  /\ KeysOf(snap) \cap KeysOf(staging[0].rows) # {}
  /\ KeysOf(staging[0].rows) \ KeysOf(snap) # {}
  /\ KeysOf(durable.rows) = KeysOf(snap) \cup KeysOf(staging[0].rows)

---------------------------------------------------------------------------
(* What the claims about a failed staging insert speak of *)

\* the step is a table.insert of a sub-batch that throws
InsertFailedStep == lpc = "insert" /\ lpc' = "idle" /\ outcome' = "error"

\* C36: when a staging sub-batch insert fails, the merge is not executed for
\* the batch, the durable table is as it was when saveMetrics was called,
\* the error is rethrown, and no drop is attempted: the staging table stays,
\* holding the sub-batches inserted before the failure.
InsertFailureAborts ==
  [][InsertFailedStep =>
       /\ mgr.merges = 0
       /\ durable' = durable
       /\ durable.rows = snap
       /\ Rethrown(outcome')
       /\ staging' = staging
       /\ mgr.tempTable \in DOMAIN staging =>
            staging'[mgr.tempTable].rows
              = SubSeq(StageRows(batch), 1, mgr.inserted)]_vars

\* the second sub-batch insert of a load failed: the call has ended in an
\* error and the staging table of the call holds the first sub-batch
InsertFailureAbortsWitness ==
  /\ lpc = "idle"
  /\ outcome = "error"
  /\ Len(batch) > InsertBatchSize
  /\ durable.rows = snap
  /\ \E t \in DOMAIN staging :
       staging[t].rows = SubSeq(StageRows(batch), 1, InsertBatchSize)

---------------------------------------------------------------------------
(* What the claims about the order of the two stores speak of *)

\* every upsert of the batch has been applied to the collection
UpsertCompleted == ApplyOps(mongo, batch, Len(batch)) = mongo

\* the load is at a step of the analytical store
AnalyticalPcs ==
  {"new", "exists", "existsTemp", "create", "recheck", "wait", "insert",
   "merge", "drop", "finish"}

\* C37: in saveMetrics the operational upsert of the batch has completed
\* before any analytical-store step starts; when the upsert fails no staging
\* table is created and the durable table is unchanged; and when a later
\* analytical step fails the rows of the batch stay in the operational
\* store.
OperationalFirst ==
  /\ [](lpc \in AnalyticalPcs => UpsertCompleted)
  /\ [][(durable' # durable \/ staging' # staging)
          => (lpc \in AnalyticalPcs /\ UpsertCompleted)]_vars
  /\ [][(lpc = "bulkWrite" /\ lpc' = "idle" /\ outcome' = "error")
          => /\ staging' = staging
             /\ durable' = durable
             /\ durable.rows = snap
             /\ mgr = NoManager]_vars
  /\ [][(lpc \in AnalyticalPcs /\ lpc' = "idle" /\ outcome' = "error")
          => (mongo' = mongo /\ UpsertCompleted')]_vars

\* a load that upserted two rows into the collection and then failed at an
\* analytical step after its staging table was created: the rows are in the
\* collection and the durable table is as it was
OperationalFirstWitness ==
  /\ lpc = "idle"
  /\ outcome = "error"
  /\ Len(batch) >= 2
  /\ UpsertCompleted
  /\ \A k \in 1..Len(batch) : \E r \in mongo : SameKey(r, batch[k])
  /\ staging # <<>>
  /\ durable.rows = snap

---------------------------------------------------------------------------
(* What the claims about a batch without rows speak of *)

\* the step ends the derivations of a batch none of which returned a row
EmptyBatchStep ==
  /\ rpc = "derive"
  /\ rpc' # "derive"
  /\ \A t \in DOMAIN tasks : tasks[t].rows = <<>> /\ ~tasks[t].rejected

\* the step is a refresh finding that no security was selected
EmptySelectionStep ==
  /\ rpc = "start"
  /\ mode = "refresh"
  /\ rpc' # "failed"
  /\ allTickers' = <<>>

\* C38: a batch that yields no rows and a refresh that selects no security
\* write to no store: saveMetrics is not called, so there is no upsert, no
\* staging table, no insert, no merge and no drop, both stores are as they
\* were, and the run goes on to the next batch or returns normally.
NoRowsNoWrites ==
  /\ [][EmptyBatchStep =>
          /\ UNCHANGED <<storeVars, loadVars>>
          /\ rpc' = "loop"
          /\ bi' = bi + TickerBatchSize]_vars
  /\ [][EmptySelectionStep =>
          /\ UNCHANGED <<storeVars, loadVars>>
          /\ rpc' = "done"]_vars
  /\ [][(storeVars' # storeVars \/ loadVars' # loadVars) =>
          (rpc' = "save" /\ Len(allMetrics') > 0)]_vars
  /\ []((rpc = "done" /\ allTickers = <<>>) =>
          (loads = 0 /\ mongo = {} /\ durable.rows = <<>> /\ staging = <<>>))

\* a second batch returned no row after the first batch was saved: the run
\* is back at the loop test with both stores as the first batch left them
NoRowsNoWritesWitness ==
  /\ rpc = "loop"
  /\ bi = 2 * TickerBatchSize
  /\ allMetrics = <<>>
  /\ loads = 1
  /\ outcome = "ok"
  /\ mongo # {}
  /\ durable.rows # <<>>

====
